---- MODULE Spec2Model ----
(***************************************************************************)
(* Express-decision engines of the ProjectManagement repository:           *)
(*   engine.py     exhaustive search over activity-level express options   *)
(*   engine_v2.py  greedy hill-climbing over part- and activity-level      *)
(*                 express options, per site                               *)
(* Both evaluate a candidate express set by a seeded Monte-Carlo run of    *)
(* the activity network followed by the late-cost model.                   *)
(*                                                                         *)
(* Units.  Durations are whole multiples of 1/TimeScale day (every PERT    *)
(* parameter of both catalogs is a multiple of 0.25 day).  Money is in     *)
(* euro.  Churn probabilities are in 1/ProbScale.  A mean value x / n is   *)
(* kept as the exact fraction <<x, n>>.                                    *)
(***************************************************************************)
EXTENDS Integers, Sequences, FiniteSets, TLC

\* ---------------------------------------------------------------- bounds

\* Largest trial count n_samples a request may carry.
MaxSamples == 2
\* Length of the stream of beta variates that follows random.seed(RANDOM_SEED);
\* draws past its end wrap around.
StreamLen == 2
\* Largest level of a beta variate in the stream: level 0 is the lower end of
\* its range, level 1 the upper end, a higher level the mode.
MaxLevel == 1
\* Number of parts of each group (mechanical, electrical, casting) the
\* bill of materials is cut down to.
PartsPerGroup == 1
\* Number of candidates in the searches run against an arbitrary
\* deterministic evaluation.
NumAnyCands == 3
\* Largest expected profit an arbitrary deterministic evaluation returns.
MaxAnyProfit == 4
\* The same, for the searches whose termination is examined.
MaxFairProfit == 2

\* Calls of build_expected_schedule after a search.
MaxScheduleCalls == 2

\* Longest duration, in 1/TimeScale day, of a stage in the assignments
\* compute_makespan is called with by itself.
MaxDuration == 1

\* Number of parts of a group when the delivery of one group is looked at
\* by itself.
GroupParts == 2
\* Largest parameter, in 1/TimeScale day, of the PERT triples sample_pert is
\* called with by itself.
MaxPert == 3
\* Largest makespan T, in 1/TimeScale day, cost_components is called with by
\* itself: 20 days.
MaxMakespan == 80
\* Bits of the significand of a float: Python's floats have 53.
MantissaBits == 8

\* ------------------------------------------------------- base parameters

TimeScale == 4
ProbScale == 1000

BASE_MARGIN == 1000
EXPRESS_SURCHARGE == 250
CUSTOMER_VALUE == 4000
DISCOUNT_PER_DAY == 100
RANDOM_SEED == 42

\* Promised lead times of evaluate_strategy_for_service, in days.
L_NORMAL == 14
L_EXPRESS == 7

\* 1 / 1e-6, the improvement threshold of the greedy search.
EPS_INVERSE == 1000000

\* D_mid of churn_prob, in days; k = 1.
D_MID == 4

\* -------------------------------------------------------------- helpers

Max2(x, y) == IF x >= y THEN x ELSE y

Min2(x, y) == IF x <= y THEN x ELSE y

\* max() of a non-empty sequence of numbers.
RECURSIVE MaxOfSeq(_)
MaxOfSeq(s) ==
    IF Len(s) = 1 THEN s[1] ELSE Max2(s[1], MaxOfSeq(Tail(s)))

SeqToSet(s) == {s[i] : i \in 1..Len(s)}

\* ------------------------------------------------------ activity network

\* An activity record; PERT triples are <<min, mode, max>> in 1/TimeScale day.
Act(id, preds, np, ep, cost, cbm) ==
    [id |-> id, predecessors |-> preds, normal_pert |-> np,
     express_pert |-> ep, express_cost |-> cost, can_be_missing |-> cbm]

\* ACTIVITIES of engine.py, in dict order.
ACTIVITIES_V1 == <<
    Act("a", <<>>, <<2, 4, 4>>, <<2, 4, 4>>, 0, FALSE),
    Act("b", <<"a">>, <<4, 12, 20>>, <<2, 4, 6>>, 50, TRUE),
    Act("c", <<"a">>, <<8, 16, 24>>, <<4, 8, 12>>, 50, TRUE),
    Act("d", <<"a">>, <<2, 4, 8>>, <<2, 4, 6>>, 50, TRUE),
    Act("e", <<"b">>, <<6, 10, 12>>, <<2, 6, 8>>, 120, FALSE),
    Act("f", <<"c">>, <<8, 12, 14>>, <<6, 8, 12>>, 120, FALSE),
    Act("g", <<"d">>, <<2, 6, 8>>, <<2, 4, 6>>, 120, FALSE),
    Act("h", <<"e", "f", "g">>, <<2, 4, 4>>, <<1, 2, 3>>, 60, FALSE),
    Act("i", <<"h">>, <<4, 6, 6>>, <<2, 3, 4>>, 120, FALSE),
    Act("j", <<"i">>, <<2, 4, 6>>, <<1, 2, 2>>, 50, FALSE),
    Act("k", <<"j">>, <<4, 6, 8>>, <<4, 6, 8>>, 0, FALSE),
    Act("l", <<"j">>, <<1, 2, 2>>, <<1, 2, 2>>, 0, FALSE),
    Act("m", <<"k", "l">>, <<2, 2, 4>>, <<2, 2, 4>>, 0, FALSE),
    Act("n", <<"m">>, <<0, 0, 0>>, <<0, 0, 0>>, 0, FALSE) >>

\* ACTIVITIES of engine_v2.py, in dict order; b, c, d take their duration
\* from the missing parts of their group.
ACTIVITIES_V2 == <<
    Act("a", <<>>, <<2, 4, 4>>, <<2, 4, 4>>, 0, FALSE),
    Act("b", <<"a">>, <<0, 0, 0>>, <<0, 0, 0>>, 0, FALSE),
    Act("c", <<"a">>, <<0, 0, 0>>, <<0, 0, 0>>, 0, FALSE),
    Act("d", <<"a">>, <<0, 0, 0>>, <<0, 0, 0>>, 0, FALSE),
    Act("e", <<"b">>, <<6, 10, 12>>, <<2, 6, 8>>, 120, FALSE),
    Act("f", <<"c">>, <<8, 12, 14>>, <<6, 8, 12>>, 120, FALSE),
    Act("g", <<"d">>, <<2, 6, 8>>, <<2, 4, 6>>, 120, FALSE),
    Act("h", <<"e", "f", "g">>, <<2, 4, 4>>, <<1, 2, 3>>, 60, FALSE),
    Act("i", <<"h">>, <<4, 6, 6>>, <<2, 3, 4>>, 120, FALSE),
    Act("j", <<"i">>, <<2, 4, 6>>, <<1, 2, 2>>, 50, FALSE),
    Act("k", <<"j">>, <<4, 6, 8>>, <<4, 6, 8>>, 0, FALSE),
    Act("l", <<"j">>, <<1, 2, 2>>, <<1, 2, 2>>, 0, FALSE),
    Act("m", <<"k", "l">>, <<2, 2, 4>>, <<2, 2, 4>>, 0, FALSE),
    Act("n", <<"m">>, <<0, 0, 0>>, <<0, 0, 0>>, 0, FALSE) >>

ACTIVITIES(eng) == IF eng = "v1" THEN ACTIVITIES_V1 ELSE ACTIVITIES_V2

\* The dict lookups ACTIVITIES[act_id] of the two engines.
ACTIVITY_OF_V1 ==
    [id \in {ACTIVITIES_V1[i].id : i \in 1..Len(ACTIVITIES_V1)} |->
        ACTIVITIES_V1[CHOOSE i \in 1..Len(ACTIVITIES_V1) :
                         ACTIVITIES_V1[i].id = id]]

ACTIVITY_OF_V2 ==
    [id \in {ACTIVITIES_V2[i].id : i \in 1..Len(ACTIVITIES_V2)} |->
        ACTIVITIES_V2[CHOOSE i \in 1..Len(ACTIVITIES_V2) :
                         ACTIVITIES_V2[i].id = id]]

\* ACTIVITIES[act_id]
ActivityById(eng, act_id) ==
    IF eng = "v1" THEN ACTIVITY_OF_V1[act_id] ELSE ACTIVITY_OF_V2[act_id]

\* TOPO_ORDER with the quality check "h" listed before the sub-assembly "g"
\* it waits for.
TOPO_ORDER_QcBeforeCasting ==
    <<"a", "b", "c", "d", "e", "f", "h", "g", "i", "j", "k", "l", "m", "n">>

TOPO_ORDER ==
    <<"a", "b", "c", "d", "e", "f", "g", "h", "i", "j", "k", "l", "m", "n">>

\* engine.py: [act_id for act_id, act in ACTIVITIES.items() if act.express_cost > 0.0]
EXPRESS_CANDIDATES ==
    SelectSeq([i \in 1..Len(ACTIVITIES_V1) |-> ACTIVITIES_V1[i].id],
              LAMBDA id : ActivityById("v1", id).express_cost > 0)

\* engine_v2.py
ACTIVITY_EXPRESS_CANDIDATES == <<"e", "f", "g", "h", "i", "j">>

\* ---------------------------------------------------------- part catalog

\* PARTS of engine_v2.py, in dict order.
PARTS_CATALOG == <<
    [id |-> "M01", group |-> "mechanical", AT_normal |-> <<28, 36, 44>>, AT_express |-> <<20, 24, 36>>,
     BE_normal |-> <<8, 12, 16>>, BE_express |-> <<4, 4, 6>>, express_cost |-> 45],
    [id |-> "M02", group |-> "mechanical", AT_normal |-> <<28, 36, 52>>, AT_express |-> <<16, 24, 32>>,
     BE_normal |-> <<8, 12, 20>>, BE_express |-> <<2, 4, 4>>, express_cost |-> 55],
    [id |-> "M03", group |-> "mechanical", AT_normal |-> <<20, 32, 48>>, AT_express |-> <<20, 28, 40>>,
     BE_normal |-> <<8, 12, 16>>, BE_express |-> <<2, 4, 6>>, express_cost |-> 48],
    [id |-> "M04", group |-> "mechanical", AT_normal |-> <<24, 32, 48>>, AT_express |-> <<24, 28, 32>>,
     BE_normal |-> <<8, 12, 20>>, BE_express |-> <<4, 4, 4>>, express_cost |-> 52],
    [id |-> "M05", group |-> "mechanical", AT_normal |-> <<32, 40, 52>>, AT_express |-> <<16, 24, 44>>,
     BE_normal |-> <<8, 12, 16>>, BE_express |-> <<4, 4, 4>>, express_cost |-> 50],
    [id |-> "M06", group |-> "mechanical", AT_normal |-> <<32, 40, 56>>, AT_express |-> <<20, 28, 40>>,
     BE_normal |-> <<12, 12, 16>>, BE_express |-> <<4, 4, 8>>, express_cost |-> 46],
    [id |-> "M07", group |-> "mechanical", AT_normal |-> <<28, 36, 44>>, AT_express |-> <<24, 28, 32>>,
     BE_normal |-> <<8, 12, 16>>, BE_express |-> <<2, 4, 4>>, express_cost |-> 53],
    [id |-> "M08", group |-> "mechanical", AT_normal |-> <<28, 36, 44>>, AT_express |-> <<16, 24, 32>>,
     BE_normal |-> <<8, 12, 20>>, BE_express |-> <<4, 4, 8>>, express_cost |-> 51],
    [id |-> "E01", group |-> "electrical", AT_normal |-> <<36, 48, 60>>, AT_express |-> <<28, 36, 44>>,
     BE_normal |-> <<12, 16, 20>>, BE_express |-> <<8, 8, 8>>, express_cost |-> 48],
    [id |-> "E02", group |-> "electrical", AT_normal |-> <<36, 48, 60>>, AT_express |-> <<24, 36, 48>>,
     BE_normal |-> <<12, 16, 24>>, BE_express |-> <<4, 8, 12>>, express_cost |-> 52],
    [id |-> "E03", group |-> "electrical", AT_normal |-> <<40, 48, 64>>, AT_express |-> <<28, 32, 52>>,
     BE_normal |-> <<12, 16, 20>>, BE_express |-> <<8, 8, 12>>, express_cost |-> 50],
    [id |-> "E04", group |-> "electrical", AT_normal |-> <<40, 48, 56>>, AT_express |-> <<32, 36, 40>>,
     BE_normal |-> <<12, 16, 20>>, BE_express |-> <<8, 8, 8>>, express_cost |-> 46],
    [id |-> "E05", group |-> "electrical", AT_normal |-> <<40, 52, 64>>, AT_express |-> <<24, 36, 52>>,
     BE_normal |-> <<16, 16, 20>>, BE_express |-> <<4, 8, 12>>, express_cost |-> 54],
    [id |-> "E06", group |-> "electrical", AT_normal |-> <<40, 52, 64>>, AT_express |-> <<28, 40, 44>>,
     BE_normal |-> <<12, 16, 24>>, BE_express |-> <<8, 8, 12>>, express_cost |-> 49],
    [id |-> "E07", group |-> "electrical", AT_normal |-> <<36, 44, 60>>, AT_express |-> <<32, 36, 44>>,
     BE_normal |-> <<12, 16, 20>>, BE_express |-> <<8, 8, 8>>, express_cost |-> 51],
    [id |-> "E08", group |-> "electrical", AT_normal |-> <<36, 44, 60>>, AT_express |-> <<28, 36, 48>>,
     BE_normal |-> <<16, 16, 20>>, BE_express |-> <<4, 8, 12>>, express_cost |-> 47],
    [id |-> "E09", group |-> "electrical", AT_normal |-> <<40, 48, 56>>, AT_express |-> <<24, 32, 48>>,
     BE_normal |-> <<12, 16, 20>>, BE_express |-> <<8, 8, 8>>, express_cost |-> 53],
    [id |-> "E10", group |-> "electrical", AT_normal |-> <<40, 48, 56>>, AT_express |-> <<32, 40, 44>>,
     BE_normal |-> <<12, 16, 24>>, BE_express |-> <<8, 8, 12>>, express_cost |-> 50],
    [id |-> "C01", group |-> "casting", AT_normal |-> <<4, 12, 24>>, AT_express |-> <<4, 8, 20>>,
     BE_normal |-> <<4, 4, 4>>, BE_express |-> <<4, 4, 4>>, express_cost |-> 48],
    [id |-> "C02", group |-> "casting", AT_normal |-> <<8, 12, 24>>, AT_express |-> <<4, 8, 16>>,
     BE_normal |-> <<4, 4, 8>>, BE_express |-> <<2, 4, 8>>, express_cost |-> 52],
    [id |-> "C03", group |-> "casting", AT_normal |-> <<8, 12, 24>>, AT_express |-> <<8, 8, 16>>,
     BE_normal |-> <<4, 4, 4>>, BE_express |-> <<4, 4, 4>>, express_cost |-> 50],
    [id |-> "C04", group |-> "casting", AT_normal |-> <<8, 12, 24>>, AT_express |-> <<4, 8, 20>>,
     BE_normal |-> <<4, 4, 8>>, BE_express |-> <<4, 4, 4>>, express_cost |-> 49],
    [id |-> "C05", group |-> "casting", AT_normal |-> <<8, 12, 24>>, AT_express |-> <<4, 12, 16>>,
     BE_normal |-> <<4, 4, 4>>, BE_express |-> <<4, 4, 4>>, express_cost |-> 51],
    [id |-> "C06", group |-> "casting", AT_normal |-> <<8, 12, 24>>, AT_express |-> <<8, 8, 12>>,
     BE_normal |-> <<4, 4, 8>>, BE_express |-> <<4, 4, 4>>, express_cost |-> 47],
    [id |-> "C07", group |-> "casting", AT_normal |-> <<8, 12, 24>>, AT_express |-> <<4, 8, 20>>,
     BE_normal |-> <<4, 4, 4>>, BE_express |-> <<4, 4, 8>>, express_cost |-> 53],
    [id |-> "C08", group |-> "casting", AT_normal |-> <<8, 12, 24>>, AT_express |-> <<4, 8, 16>>,
     BE_normal |-> <<4, 4, 8>>, BE_express |-> <<4, 4, 6>>, express_cost |-> 50],
    [id |-> "C09", group |-> "casting", AT_normal |-> <<4, 12, 20>>, AT_express |-> <<8, 8, 16>>,
     BE_normal |-> <<4, 4, 4>>, BE_express |-> <<2, 4, 4>>, express_cost |-> 48],
    [id |-> "C10", group |-> "casting", AT_normal |-> <<8, 12, 24>>, AT_express |-> <<4, 12, 20>>,
     BE_normal |-> <<4, 4, 8>>, BE_express |-> <<4, 4, 4>>, express_cost |-> 52],
    [id |-> "C11", group |-> "casting", AT_normal |-> <<8, 12, 24>>, AT_express |-> <<4, 8, 16>>,
     BE_normal |-> <<4, 4, 4>>, BE_express |-> <<4, 4, 8>>, express_cost |-> 49],
    [id |-> "C12", group |-> "casting", AT_normal |-> <<8, 12, 20>>, AT_express |-> <<8, 8, 12>>,
     BE_normal |-> <<4, 4, 4>>, BE_express |-> <<4, 4, 4>>, express_cost |-> 51],
    [id |-> "C13", group |-> "casting", AT_normal |-> <<8, 12, 20>>, AT_express |-> <<4, 8, 20>>,
     BE_normal |-> <<4, 4, 4>>, BE_express |-> <<4, 4, 4>>, express_cost |-> 50],
    [id |-> "C14", group |-> "casting", AT_normal |-> <<12, 12, 20>>, AT_express |-> <<4, 12, 16>>,
     BE_normal |-> <<4, 4, 8>>, BE_express |-> <<4, 4, 8>>, express_cost |-> 48],
    [id |-> "C15", group |-> "casting", AT_normal |-> <<12, 12, 20>>, AT_express |-> <<8, 8, 16>>,
     BE_normal |-> <<4, 4, 8>>, BE_express |-> <<4, 4, 4>>, express_cost |-> 52],
    [id |-> "C16", group |-> "casting", AT_normal |-> <<12, 12, 20>>, AT_express |-> <<4, 8, 20>>,
     BE_normal |-> <<4, 4, 4>>, BE_express |-> <<4, 4, 4>>, express_cost |-> 49],
    [id |-> "C17", group |-> "casting", AT_normal |-> <<12, 12, 20>>, AT_express |-> <<4, 8, 16>>,
     BE_normal |-> <<4, 4, 8>>, BE_express |-> <<2, 4, 4>>, express_cost |-> 51],
    [id |-> "C18", group |-> "casting", AT_normal |-> <<12, 12, 20>>, AT_express |-> <<8, 12, 16>>,
     BE_normal |-> <<4, 4, 4>>, BE_express |-> <<4, 4, 4>>, express_cost |-> 50],
    [id |-> "C19", group |-> "casting", AT_normal |-> <<12, 12, 16>>, AT_express |-> <<4, 8, 20>>,
     BE_normal |-> <<4, 4, 8>>, BE_express |-> <<4, 4, 8>>, express_cost |-> 48],
    [id |-> "C20", group |-> "casting", AT_normal |-> <<8, 12, 16>>, AT_express |-> <<4, 8, 16>>,
     BE_normal |-> <<4, 4, 4>>, BE_express |-> <<4, 4, 4>>, express_cost |-> 52],
    [id |-> "C21", group |-> "casting", AT_normal |-> <<8, 12, 16>>, AT_express |-> <<8, 8, 12>>,
     BE_normal |-> <<4, 4, 8>>, BE_express |-> <<4, 4, 8>>, express_cost |-> 50]
>>

\* The first k entries of a sequence.
Prefix(s, k) == SubSeq(s, 1, Min2(k, Len(s)))

\* PARTS: the catalog cut down to the first PartsPerGroup parts of each group.
PARTS ==
    LET OfGroup(g) == SelectSeq(PARTS_CATALOG, LAMBDA p : p.group = g)
    IN  Prefix(OfGroup("mechanical"), PartsPerGroup)
        \o Prefix(OfGroup("electrical"), PartsPerGroup)
        \o Prefix(OfGroup("casting"), PartsPerGroup)

\* The dict of a list of entries, each under its id, from entry k on.
RECURSIVE DictById(_, _)
DictById(items, k) ==
    IF k > Len(items)
    THEN <<>>
    ELSE (items[k].id :> items[k]) @@ DictById(items, k + 1)

\* PARTS[pid], for every part of the catalog.
PART_OF == DictById(PARTS_CATALOG, 1)

PartById(pid) == PART_OF[pid]

\* PART_IDS_BY_GROUP, in dict order within each group.
PART_IDS_BY_GROUP ==
    [group \in {"mechanical", "electrical", "casting"} |->
        LET sel == SelectSeq(PARTS, LAMBDA p : p.group = group)
        IN  [i \in 1..Len(sel) |-> sel[i].id]]

\* list(PARTS.keys())
PART_EXPRESS_CANDIDATES == [i \in 1..Len(PARTS) |-> PARTS[i].id]

\* PART_IDS_BY_GROUP[group] for the delivery of one group looked at by
\* itself: the first GroupParts parts of the group.
GroupPids(group) ==
    LET sel == Prefix(SelectSeq(PARTS_CATALOG, LAMBDA p : p.group = group),
                      GroupParts)
    IN  [i \in 1..Len(sel) |-> sel[i].id]

\* part["pert"][site]["express" if use_express else "normal"]
PartPert(part, site_, use_express) ==
    IF site_ = "AT"
    THEN IF use_express THEN part.AT_express ELSE part.AT_normal
    ELSE IF use_express THEN part.BE_express ELSE part.BE_normal

VARIABLES
    engine,         \* "v1": engine.py, "v2": engine_v2.py
    oracle,         \* "sim": evaluations simulate; "any": they look up anyProfit
    service_type,   \* request: service level
    site,           \* request: production site (engine_v2.py)
    missing,        \* request: v1 missing_parts dict, v2 set of missing part ids
    n_samples,      \* request: trial count
    stream,         \* the beta variates random yields after random.seed(RANDOM_SEED)
    anyProfit,      \* oracle "any": expected profit of every express set
    rng,            \* state of the module-global random: variates drawn since the seed
    pc,             \* "start", "search", "done", "raised"
    r,              \* v1: size of the subsets enumerated next
    best_set,       \* v1: best_set
    best_profit,    \* v1: best_profit
    express_set,    \* v2: express_set
    base_profit,    \* v2: base_profit
    improved,       \* v2: improved
    best_metrics,   \* v1 and v2: best_metrics
    commits,        \* v2: number of rounds that committed a toggle so far
    evalLog,        \* the evaluations made so far, in order: <<express set, metrics>>
    error,          \* the exception that ended the call ("" when none)
    schedule,       \* what build_expected_schedule returned last (<<>> before)
    schedule_calls, \* calls of build_expected_schedule so far
    arg_express,    \* the express set a caller passes to an entry point itself
    result,         \* what evaluate_strategy_for_service returned to that caller
    site_mode,      \* app_v2.py: "AT", "BE" or "auto"
    missing_AT,     \* app_v2.py: missing_AT_part_ids
    missing_BE,     \* app_v2.py: missing_BE_part_ids
    app_pc,         \* app_v2.py: "idle", "AT" or "BE" (that search runs), "shown"
    best_set_AT,    \* app_v2.py: best_set_AT
    metrics_AT,     \* app_v2.py: metrics_AT
    chosen,         \* app_v2.py: chosen_site, best_set, metrics, other_site, other_site_metrics
    runs,           \* the searches the application has called: <<site, missing ids>>
    threads,        \* evaluations running concurrently: express_set, position, T_samples, metrics
    catalog,        \* the predecessors the ACTIVITIES literal gives every stage
    load,           \* "unloaded", or "loaded" once the module body has run
    makespan,       \* what compute_makespan returned or raised ("none" before)
    arg_durations,  \* compute_makespan called by itself: its arguments, call by call
    earliest_finish,\* compute_makespan: its dict earliest_finish at return
    pert,           \* sample_pert called by itself: <<a, m, b>>
    drawn,          \* sample_pert: the state it was called at, what it returned
    lead,           \* cost_components called by itself: <<T, L>>
    components,     \* cost_components: the five values it returned
    group_call,     \* the delivery time of one group, sampled and expected
    aggregate       \* the loop over T_samples by itself: its inputs and sums

vars == <<engine, oracle, service_type, site, missing, n_samples, stream,
          anyProfit, rng, pc, r, best_set, best_profit, express_set,
          base_profit, improved, best_metrics, commits, evalLog, error,
          schedule, schedule_calls, arg_express, result, site_mode,
          missing_AT, missing_BE, app_pc, best_set_AT, metrics_AT, chosen,
          runs, threads, catalog, load, makespan, arg_durations,
          earliest_finish, pert, drawn, lead, components,
          group_call, aggregate>>

request == <<engine, oracle, service_type, site, missing, n_samples, stream,
             anyProfit>>

\* A caller's own call of evaluate_strategy_for_service.
callVars == <<arg_express, result>>

\* The site comparison of app_v2.py.
appVars == <<site_mode, missing_AT, missing_BE, app_pc, best_set_AT,
             metrics_AT, chosen, runs>>

\* The stage catalog as loaded.
catVars == <<catalog, load, makespan>>

\* The functions called by themselves: arguments and results.
unitVars == <<arg_durations, earliest_finish, pert, drawn, lead,
              components, group_call, aggregate>>

\* What the searches leave alone besides the request.
aside == <<schedule, schedule_calls, callVars, appVars, threads, catVars,
           unitVars>>

\* ------------------------------------------------------------ fractions

\* float("-inf")
NEG_INF == <<-1, 0>>

\* x > y for fractions <<numerator, denominator>>, denominators >= 0.
FracGt(x, y) == x[1] * y[2] > y[1] * x[2]

FracGe(x, y) == x[1] * y[2] >= y[1] * x[2]

\* x > y + 1e-6: with d the integer x[1]*y[2] - y[1]*x[2], the difference
\* x - y is d / (x[2]*y[2]), which exceeds 1/EPS_INVERSE iff
\* d > (x[2]*y[2]) \div EPS_INVERSE.
ExceedsByEps(x, y) ==
    (x[1] * y[2] - y[1] * x[2]) > ((x[2] * y[2]) \div EPS_INVERSE)

\* --------------------------------------------------------- PERT sampling

\* random.seed(seed): the generator restarts at the head of the stream.
Seed(seed) == 0

\* random.betavariate(alpha, beta) at generator state pos: the level of the
\* variate (0: lower end of [0, 1], 1: upper end, above: the mode of the
\* beta); the state advances by one draw.
BetaLevel(pos) == stream[(pos % StreamLen) + 1]

\* sample_pert that draws a variate before it looks at the triple: the
\* degenerate case advances the generator.
sample_pert_DrawingFirst(a, m, b, pos) ==
    IF b = a
    THEN <<a, pos + 1>>
    ELSE <<a + ((CASE BetaLevel(pos) = 0 -> 0
                   [] BetaLevel(pos) = 1 -> b - a
                   [] OTHER -> m - a) * (b - a)) \div (b - a), pos + 1>>

\* sample_pert(a, m, b) at generator state pos: <<value, new state>>.
\* alpha - 1 = lamb (m - a) / (b - a) and beta - 1 = lamb (b - m) / (b - a), so
\* the mode of the variate x is (m - a) / (b - a) and a + x (b - a) is a, b
\* or m.
sample_pert(a, m, b, pos) ==
    IF b = a
    THEN <<a, pos>>
    ELSE LET u == BetaLevel(pos)
             xnum == CASE u = 0 -> 0
                       [] u = 1 -> b - a
                       [] OTHER -> m - a
         IN  <<a + (xnum * (b - a)) \div (b - a), pos + 1>>

\* mean_pert(a, m, b), as a fraction of 1/TimeScale day.
mean_pert(a, m, b) == <<a + 4 * m + b, 6>>

\* --------------------------------------------------- activity durations

\* "a, m, b = p; sample_pert(a, m, b)" for a PERT triple p.
SamplePert(p, pos) == sample_pert(p[1], p[2], p[3], pos)

\* engine.py sample_activity_duration: <<duration, new generator state>>.
sample_activity_duration_v1(act, use_express, missing_parts, pos) ==
    IF act.can_be_missing
       /\ ~(IF act.id \in DOMAIN missing_parts
            THEN missing_parts[act.id] ELSE FALSE)
    THEN <<0, pos>>
    ELSE SamplePert(IF use_express THEN act.express_pert
                                   ELSE act.normal_pert, pos)

\* "times.append(t)" for a sample t = <<value, new state>>, with acc
\* the pair <<times, generator state>>.
AppendSample(acc, t) == <<Append(acc[1], t[1]), t[2]>>

\* The loop of sample_group_delivery_time over pids =
\* PART_IDS_BY_GROUP[group] from index k on, with acc = <<times, generator
\* state>> so far: <<times, new generator state>>.
RECURSIVE GroupTimes(_, _, _, _, _, _)
GroupTimes(site_, pids, k, missing_part_ids, expr, acc) ==
    IF k > Len(pids)
    THEN acc
    ELSE IF pids[k] \notin missing_part_ids
    THEN GroupTimes(site_, pids, k + 1, missing_part_ids, expr, acc)
    ELSE GroupTimes(site_, pids, k + 1, missing_part_ids, expr,
             AppendSample(acc,
                 SamplePert(PartPert(PartById(pids[k]), site_,
                                     pids[k] \in expr), acc[2])))

\* GroupMax that returns the time of the first missing part.
GroupMaxOfFirst(ts) ==
    IF ts[1] = <<>> THEN <<0, ts[2]>> ELSE <<ts[1][1], ts[2]>>

\* "if not times: return 0.0; return max(times)" for ts = <<times, state>>.
GroupMax(ts) ==
    IF ts[1] = <<>> THEN <<0, ts[2]>> ELSE <<MaxOfSeq(ts[1]), ts[2]>>

\* engine_v2.py sample_group_delivery_time: <<delivery time, new state>>.
sample_group_delivery_time(site_, group, missing_part_ids, expr, pos) ==
    GroupMax(GroupTimes(site_, PART_IDS_BY_GROUP[group], 1,
                        missing_part_ids, expr, <<<<>>, pos>>))

\* engine_v2.py sample_activity_duration: <<duration, new state>>.
sample_activity_duration_v2(site_, act, expr, missing_part_ids, pos) ==
    IF act.id = "b"
    THEN sample_group_delivery_time(site_, "mechanical", missing_part_ids, expr, pos)
    ELSE IF act.id = "c"
    THEN sample_group_delivery_time(site_, "electrical", missing_part_ids, expr, pos)
    ELSE IF act.id = "d"
    THEN sample_group_delivery_time(site_, "casting", missing_part_ids, expr, pos)
    ELSE SamplePert(IF act.id \in expr THEN act.express_pert
                                       ELSE act.normal_pert, pos)

\* One duration for an activity of either engine.  expr is the express set
\* as a set of ids.
sample_activity_duration(eng, site_, act, expr, miss, pos) ==
    IF eng = "v1"
    THEN sample_activity_duration_v1(act, act.id \in expr, miss, pos)
    ELSE sample_activity_duration_v2(site_, act, expr, miss, pos)

\* ------------------------------------------------------------------ CPM

\* EarliestStart that waits for the first predecessor only.
EarliestStartOfFirst(preds, ef) ==
    IF preds = <<>> THEN 0 ELSE ef[preds[1]]

\* est of compute_makespan: 0.0 without predecessors, else the largest
\* earliest finish among them.
EarliestStart(preds, ef) ==
    IF preds = <<>>
    THEN 0
    ELSE MaxOfSeq([i \in 1..Len(preds) |-> ef[preds[i]]])

\* ForwardPass with "est - durations[act_id]": the duration is taken off the
\* earliest start.
RECURSIVE ForwardPassSubtracting(_, _, _, _)
ForwardPassSubtracting(eng, durations, k, ef) ==
    IF k > Len(TOPO_ORDER)
    THEN ef
    ELSE ForwardPassSubtracting(eng, durations, k + 1,
             ef @@ (TOPO_ORDER[k] :>
                 EarliestStart(ActivityById(eng, TOPO_ORDER[k]).predecessors,
                               ef)
                 - durations[TOPO_ORDER[k]]))

\* The loop of compute_makespan over TOPO_ORDER from index k on, with ef the
\* earliest_finish dict built so far.
RECURSIVE ForwardPass(_, _, _, _)
ForwardPass(eng, durations, k, ef) ==
    IF k > Len(TOPO_ORDER)
    THEN ef
    ELSE ForwardPass(eng, durations, k + 1,
             ef @@ (TOPO_ORDER[k] :>
                 EarliestStart(ActivityById(eng, TOPO_ORDER[k]).predecessors,
                               ef)
                 + durations[TOPO_ORDER[k]]))

compute_makespan(eng, durations) ==
    ForwardPass(eng, durations, 1, <<>>)["n"]

\* ----------------------------------------------------------- simulation

\* "durations[act_id] = d" for a sample d = <<value, new state>>, with acc
\* the pair <<durations, generator state>>.
PutSample(acc, act_id, d) == <<acc[1] @@ (act_id :> d[1]), d[2]>>

\* The inner loop of simulate_lead_times over acts = ACTIVITIES.items() from
\* index k on, with acc = <<durations, generator state>> so far.
RECURSIVE SampleDurations(_, _, _, _, _, _, _)
SampleDurations(eng, acts, site_, expr, miss, k, acc) ==
    IF k > Len(acts)
    THEN acc
    ELSE SampleDurations(eng, acts, site_, expr, miss, k + 1,
             PutSample(acc, acts[k].id,
                 sample_activity_duration(eng, site_, acts[k], expr, miss,
                                          acc[2])))

\* "T = compute_makespan(durations); T_samples.append(T)" for ds =
\* <<durations, new state>>, with acc = <<T_samples, generator state>>.
AppendTrial(eng, acc, ds) ==
    <<Append(acc[1], compute_makespan(eng, ds[1])), ds[2]>>

\* The loop "for _ in range(n_samples)" with n trials to go and acc =
\* <<T_samples, generator state>> so far; range(n) is empty for n <= 0.
RECURSIVE SimulateLoop(_, _, _, _, _, _)
SimulateLoop(eng, site_, expr, miss, n, acc) ==
    IF n <= 0
    THEN acc
    ELSE SimulateLoop(eng, site_, expr, miss, n - 1,
             AppendTrial(eng, acc,
                 SampleDurations(eng, ACTIVITIES(eng), site_, expr, miss, 1,
                                 <<<<>>, acc[2]>>)))

\* simulate_lead_times: <<T_samples, new generator state>>.
simulate_lead_times(eng, site_, expr, miss, n, pos) ==
    SimulateLoop(eng, site_, expr, miss, n, <<<<>>, pos>>)
\* ----------------------------------------------------------- cost model

\* 1 / (1 + exp(-x)) in 1/ProbScale, rounded to the nearest, for x given in
\* 1/TimeScale: entry i is the value at x = (i - 17) / TimeScale.
LOGISTIC_TABLE == <<
    18, 23, 29, 37, 47, 60, 76, 95, 119, 148, 182, 223, 269, 321, 378, 438,
    500, 562, 622, 679, 731, 777, 818, 852, 881, 905, 924, 940, 953, 963,
    971, 977, 982, 986, 989, 991, 993, 995, 996, 997, 998, 998, 998, 999,
    999, 999, 999, 1000, 1000, 1000, 1000, 1000, 1000, 1000, 1000, 1000,
    1000 >>

Logistic(x) ==
    IF x + 17 < 1 THEN 0
    ELSE IF x + 17 > Len(LOGISTIC_TABLE) THEN ProbScale
    ELSE LOGISTIC_TABLE[x + 17]

\* churn_prob(delay), delay in 1/TimeScale day, result in 1/ProbScale.
churn_prob(delay) ==
    IF delay <= 0
    THEN 0
    ELSE LET x == delay - D_MID * TimeScale
             p == Logistic(x)
         IN  Min2(Max2(p, 0), ProbScale)

\* cost_components whose total is the discount alone.
cost_components_DiscountOnly(T, L) ==
    IF Max2(T - L, 0) <= 0
    THEN [delay |-> 0, p_churn |-> 0, discount_cost |-> 0,
          churn_cost |-> 0, total |-> 0]
    ELSE [delay |-> Max2(T - L, 0),
          p_churn |-> churn_prob(Max2(T - L, 0)),
          discount_cost |-> (DISCOUNT_PER_DAY * Max2(T - L, 0)) \div TimeScale,
          churn_cost |-> (churn_prob(Max2(T - L, 0)) * CUSTOMER_VALUE)
                             \div ProbScale,
          total |-> (DISCOUNT_PER_DAY * Max2(T - L, 0)) \div TimeScale]

\* cost_components(T, L): delay in 1/TimeScale day, p_churn in 1/ProbScale,
\* the three costs in euro.
cost_components(T, L) ==
    LET delay == Max2(T - L, 0)
    IN  IF delay <= 0
        THEN [delay |-> 0, p_churn |-> 0, discount_cost |-> 0,
              churn_cost |-> 0, total |-> 0]
        ELSE LET p_churn == churn_prob(delay)
                 discount_cost == (DISCOUNT_PER_DAY * delay) \div TimeScale
                 churn_cost == (p_churn * CUSTOMER_VALUE) \div ProbScale
             IN  [delay |-> delay, p_churn |-> p_churn,
                  discount_cost |-> discount_cost, churn_cost |-> churn_cost,
                  total |-> discount_cost + churn_cost]

\* engine.py total_express_cost: the loop over express_set (a list) from
\* index k on.
RECURSIVE total_express_cost_v1(_, _, _)
total_express_cost_v1(expr_list, missing_parts, k) ==
    IF k > Len(expr_list)
    THEN 0
    ELSE LET act == ActivityById("v1", expr_list[k])
             rest == total_express_cost_v1(expr_list, missing_parts, k + 1)
         IN  IF act.express_cost <= 0
             THEN rest
             ELSE IF act.can_be_missing
                     /\ ~(IF act.id \in DOMAIN missing_parts
                          THEN missing_parts[act.id] ELSE FALSE)
             THEN rest
             ELSE act.express_cost + rest

\* PartExpressCost without the test "if pid not in missing_part_ids": an
\* expedited part is paid for whether or not it was ordered.
RECURSIVE PartExpressCostUnconditional(_, _, _)
PartExpressCostUnconditional(expr, missing_part_ids, k) ==
    IF k > Len(PART_EXPRESS_CANDIDATES)
    THEN 0
    ELSE (IF PART_EXPRESS_CANDIDATES[k] \in expr
          THEN PartById(PART_EXPRESS_CANDIDATES[k]).express_cost
          ELSE 0)
         + PartExpressCostUnconditional(expr, missing_part_ids, k + 1)

\* engine_v2.py total_express_cost: the part-level loop from index k on.
RECURSIVE PartExpressCost(_, _, _)
PartExpressCost(expr, missing_part_ids, k) ==
    IF k > Len(PART_EXPRESS_CANDIDATES)
    THEN 0
    ELSE LET pid == PART_EXPRESS_CANDIDATES[k]
             rest == PartExpressCost(expr, missing_part_ids, k + 1)
         IN  IF pid \notin expr THEN rest
             ELSE IF pid \notin missing_part_ids THEN rest
             ELSE PartById(pid).express_cost + rest

\* engine_v2.py total_express_cost: the activity-level loop from index k on.
RECURSIVE ActivityExpressCost(_, _)
ActivityExpressCost(expr, k) ==
    IF k > Len(ACTIVITY_EXPRESS_CANDIDATES)
    THEN 0
    ELSE LET aid == ACTIVITY_EXPRESS_CANDIDATES[k]
             rest == ActivityExpressCost(expr, k + 1)
         IN  IF aid \notin expr THEN rest
             ELSE ActivityById("v2", aid).express_cost + rest

total_express_cost_v2(expr, missing_part_ids) ==
    PartExpressCost(expr, missing_part_ids, 1) + ActivityExpressCost(expr, 1)

\* total_express_cost of either engine.  An express set is a list of
\* activity ids in engine.py and a set of ids in engine_v2.py.
total_express_cost(eng, expr, miss) ==
    IF eng = "v1"
    THEN total_express_cost_v1(expr, miss, 1)
    ELSE total_express_cost_v2(expr, miss)

\* The ids of an express set of either engine.
ExprIds(eng, expr) == IF eng = "v1" THEN SeqToSet(expr) ELSE expr

\* ----------------------------------------------------------- evaluation

\* Reseed with RANDOM_SEED = None: the generator carries on where the
\* previous draws left it.
NoReseed(pos) == pos

\* "if RANDOM_SEED is not None: random.seed(RANDOM_SEED)" at generator state
\* pos.
Reseed(pos) == Seed(RANDOM_SEED)

\* The sums and counts before the loop "for T in T_samples".
ZeroSums ==
    [sum_T |-> 0, sum_delay |-> 0, sum_p_churn |-> 0,
     sum_discount_cost |-> 0, sum_churn_cost |-> 0, sum_late_cost |-> 0,
     count_on_time |-> 0, count_late |-> 0, count_late_5 |-> 0]

\* The body of the loop "for T in T_samples" for one T with c =
\* cost_components(T, L), on the sums and counts s.
AddSample(s, T, c) ==
    [sum_T |-> s.sum_T + T,
     sum_delay |-> s.sum_delay + c.delay,
     sum_p_churn |-> s.sum_p_churn + c.p_churn,
     sum_discount_cost |-> s.sum_discount_cost + c.discount_cost,
     sum_churn_cost |-> s.sum_churn_cost + c.churn_cost,
     sum_late_cost |-> s.sum_late_cost + c.total,
     count_on_time |-> s.count_on_time + (IF c.delay <= 0 THEN 1 ELSE 0),
     count_late |-> s.count_late + (IF c.delay <= 0 THEN 0 ELSE 1),
     count_late_5 |-> s.count_late_5
         + (IF ~(c.delay <= 0) /\ c.delay > 5 * TimeScale THEN 1 ELSE 0)]

\* The loop "for T in T_samples" from index k on, with s the sums and
\* counts so far.
RECURSIVE Accumulate(_, _, _, _)
Accumulate(T_samples, L, k, s) ==
    IF k > Len(T_samples)
    THEN s
    ELSE Accumulate(T_samples, L, k + 1,
             AddSample(s, T_samples[k], cost_components(T_samples[k], L)))

NoMetrics == [expected_profit |-> NEG_INF]

\* PromisedLeadTime with the express promise given to every service.
PromisedLeadTimeExpress(service) == L_EXPRESS * TimeScale

\* L of evaluate_strategy_for_service, in 1/TimeScale day.
PromisedLeadTime(service) ==
    IF service = "normal" THEN L_NORMAL * TimeScale
                          ELSE L_EXPRESS * TimeScale

\* Margin without the surcharge of the express service.
MarginWithoutSurcharge(service) == BASE_MARGIN

\* margin of evaluate_strategy_for_service.
Margin(service) ==
    IF service = "normal" THEN BASE_MARGIN
                          ELSE BASE_MARGIN + EXPRESS_SURCHARGE

\* The dict evaluate_strategy_for_service returns, from the sums and counts
\* s over n samples.  Every mean x / n is the fraction <<x, n>>.
Metrics(eng, site_, L, margin, expr_cost, n, s) ==
    [site |-> IF eng = "v2" THEN site_ ELSE "",
     L |-> L,
     margin |-> margin,
     express_cost |-> expr_cost,
     avg_T |-> <<s.sum_T, n>>,
     avg_delay |-> <<s.sum_delay, n>>,
     avg_churn_prob |-> <<s.sum_p_churn, n>>,
     prob_on_time |-> <<s.count_on_time, n>>,
     prob_late |-> <<s.count_late, n>>,
     prob_more_than_5_late |-> <<s.count_late_5, n>>,
     expected_discount_cost |-> <<s.sum_discount_cost, n>>,
     expected_churn_cost |-> <<s.sum_churn_cost, n>>,
     expected_late_cost |-> <<s.sum_late_cost, n>>,
     expected_profit |-> <<(margin - expr_cost) * n - s.sum_late_cost, n>>]

\* evaluate_strategy_for_service from "n = len(T_samples)" on, for sim =
\* <<T_samples, generator state>>: "avg_T = sum_T / n" divides by zero when
\* there is no sample, and in engine.py total_express_cost looks up
\* ACTIVITIES[act_id] for every id of the express set.
Summarise(eng, site_, L, margin, expr, miss, sim) ==
    IF Len(sim[1]) = 0
    THEN [status |-> "ZeroDivisionError", metrics |-> NoMetrics,
          rng |-> sim[2]]
    ELSE IF eng = "v1" /\ ~(SeqToSet(expr) \subseteq DOMAIN ACTIVITY_OF_V1)
    THEN [status |-> "KeyError", metrics |-> NoMetrics, rng |-> sim[2]]
    ELSE [status |-> "ok",
          rng |-> sim[2],
          metrics |-> Metrics(eng, site_, L, margin,
                              total_express_cost(eng, expr, miss),
                              Len(sim[1]),
                              Accumulate(sim[1], L, 1, ZeroSums))]

\* evaluate_strategy_for_service without the final "else: raise ValueError":
\* a service level that is not "normal" is given the express promise and
\* margin.
evaluate_strategy_for_service_Defaulting(eng, service, site_, expr, miss, n_req, pos) ==
    Summarise(eng, site_, PromisedLeadTime(service), Margin(service),
              expr, miss,
              simulate_lead_times(eng, site_, ExprIds(eng, expr), miss,
                                  n_req, Reseed(pos)))

\* evaluate_strategy_for_service, started at generator state pos.  Returns
\* [status, metrics, rng]: status "ok" with the metrics dict, or the exception
\* raised; rng is the generator state the call leaves behind.
evaluate_strategy_for_service(eng, service, site_, expr, miss, n_req, pos) ==
    IF service \notin {"normal", "express"}
    THEN [status |-> "ValueError", metrics |-> NoMetrics, rng |-> pos]
    ELSE Summarise(eng, site_, PromisedLeadTime(service), Margin(service),
                   expr, miss,
                   simulate_lead_times(eng, site_, ExprIds(eng, expr), miss,
                                       n_req, Reseed(pos)))

\* An evaluation whose result is any deterministic function of the express
\* set: the metrics carry the expected profit anyProfit gives that set.
evaluate_any(expr, pos) ==
    [status |-> "ok", rng |-> pos,
     metrics |-> [expected_profit |-> <<anyProfit[ExprIds(engine, expr)], 1>>]]

\* The evaluation a search of the current request makes of express set
\* expr at generator state pos.
Evaluate(expr, pos) ==
    IF oracle = "any"
    THEN evaluate_any(expr, pos)
    ELSE evaluate_strategy_for_service(engine, service_type, site, expr,
                                       missing, n_samples, pos)

\* ------------------------------------------------- exhaustive search (v1)

\* itertools.combinations(range(lo, n + 1), k) as a sequence of index
\* tuples, in the order itertools yields them.
RECURSIVE IndexCombinations(_, _, _)
IndexCombinations(n, k, lo) ==
    IF k = 0 THEN << <<>> >>
    ELSE IF lo > n THEN <<>>
    ELSE LET with == IndexCombinations(n, k - 1, lo + 1)
         IN  [i \in 1..Len(with) |-> <<lo>> \o with[i]]
             \o IndexCombinations(n, k, lo + 1)

\* itertools.combinations(cands, k), each subset as list(subset).
Combinations(cands, k) ==
    LET idx == IndexCombinations(Len(cands), k, 1)
    IN  [i \in 1..Len(idx) |-> [j \in 1..k |-> cands[idx[i][j]]]]

\* The candidates a search ranges over.  Against an arbitrary deterministic
\* evaluation the list is cut to its first NumAnyCands entries.
get_all_express_candidates ==
    PART_EXPRESS_CANDIDATES \o ACTIVITY_EXPRESS_CANDIDATES

Candidates ==
    LET full == IF engine = "v1" THEN EXPRESS_CANDIDATES
                                 ELSE get_all_express_candidates
    IN  IF oracle = "any" THEN Prefix(full, NumAnyCands) ELSE full

\* Better with ">=" for ">": a later subset of equal profit replaces the
\* incumbent.
BetterOrEqual(profit, incumbent) == FracGe(profit, incumbent)

\* "if metrics["expected_profit"] > best_profit" of the exhaustive search.
Better(profit, incumbent) == FracGt(profit, incumbent)

\* The body of "for subset in itertools.combinations(...)" once
\* evaluate_strategy_for_service has returned ev for expr = list(subset).
\* st carries the locals best_set, best_metrics, best_profit, the generator
\* state rng, the evaluations made (log; of the 2^9 metrics dicts it keeps
\* the expected profit only) and status ("ok" or the exception raised, after
\* which nothing runs).
ExhaustiveCompare(expr, st, ev) ==
    LET logged == Append(st.log, <<ExprIds("v1", expr),
                      [expected_profit |-> ev.metrics.expected_profit]>>)
    IN  IF ev.status # "ok"
        THEN [st EXCEPT !.status = ev.status, !.rng = ev.rng]
        ELSE IF Better(ev.metrics.expected_profit, st.best_profit)
        THEN [st EXCEPT !.best_profit = ev.metrics.expected_profit,
                        !.best_set = expr,
                        !.best_metrics = ev.metrics,
                        !.rng = ev.rng, !.log = logged]
        ELSE [st EXCEPT !.rng = ev.rng, !.log = logged]

\* One pass of the body of "for subset in itertools.combinations(...)".
ExhaustiveVisit(expr, st) ==
    IF st.status # "ok"
    THEN st
    ELSE ExhaustiveCompare(expr, st, Evaluate(expr, st.rng))

\* The loop "for subset in itertools.combinations(EXPRESS_CANDIDATES, r)"
\* over subsets[lo..hi], in order: the first half, then, unless that raised,
\* the second half from the state the first half leaves.
RECURSIVE ExhaustiveLoop(_, _, _, _)
ExhaustiveLoop(subsets, lo, hi, st) ==
    IF lo > hi THEN st
    ELSE IF lo = hi THEN ExhaustiveVisit(subsets[lo], st)
    ELSE LET mid == (lo + hi) \div 2
             half == ExhaustiveLoop(subsets, lo, mid, st)
         IN  IF half.status # "ok"
             THEN half
             ELSE ExhaustiveLoop(subsets, mid + 1, hi, half)

\* find_best_express_strategy_for_service: the three initial assignments.
ExhaustiveStart ==
    /\ pc = "start"
    /\ engine = "v1"
    /\ best_set' = <<>>
    /\ best_metrics' = NoMetrics
    /\ best_profit' = NEG_INF
    /\ r' = 0
    /\ pc' = "search"
    /\ UNCHANGED <<request, rng, express_set, base_profit, improved, commits,
                   evalLog, error, aside>>

\* One iteration of "for r in range(len(EXPRESS_CANDIDATES) + 1)": every
\* subset of size r is evaluated.  After the last size the function returns.
ExhaustiveSize ==
    /\ pc = "search"
    /\ engine = "v1"
    /\ r <= Len(Candidates)
    /\ \E st \in {LET subsets == Combinations(Candidates, r)
                   IN  ExhaustiveLoop(subsets, 1, Len(subsets),
                           [best_set |-> best_set,
                            best_metrics |-> best_metrics,
                            best_profit |-> best_profit, rng |-> rng,
                            log |-> evalLog, status |-> "ok"])} :
           /\ best_set' = st.best_set
           /\ best_metrics' = st.best_metrics
           /\ best_profit' = st.best_profit
           /\ rng' = st.rng
           /\ evalLog' = st.log
           /\ r' = r + 1
           /\ pc' = IF st.status # "ok" THEN "raised"
                    ELSE IF r = Len(Candidates) THEN "done"
                    ELSE "search"
           /\ error' = IF st.status # "ok" THEN st.status ELSE error
    /\ UNCHANGED <<request, express_set, base_profit, improved, commits,
                   aside>>

\* ------------------------------------------------------ greedy search (v2)

\* Improves with ">=" and no epsilon: a toggle of equal profit is committed.
ImprovesOrEqual(profit, incumbent) == FracGe(profit, incumbent)

\* Improves with a threshold of 100 euro for 1e-6.
ImprovesByHundred(profit, incumbent) ==
    FracGt(profit, <<incumbent[1] + 100 * incumbent[2], incumbent[2]>>)

\* "if profit > best_candidate_profit + 1e-6" of the greedy search.
Improves(profit, incumbent) == ExceedsByEps(profit, incumbent)

\* Toggled that only ever adds: a candidate already in the set stays in.
ToggledAddOnly(es, cid) == es \cup {cid}

\* The toggle of candidate cid relative to express set es.
Toggled(es, cid) == IF cid \in es THEN es \ {cid} ELSE es \cup {cid}

\* The body of "for cid in candidates" once evaluate_strategy_for_service
\* has returned ev for the toggle of cid.  st carries best_candidate ("" for
\* None), best_candidate_profit, best_candidate_metrics, the generator
\* state, the evaluations made and status.
GreedyCompare(es, st, cid, ev) ==
    LET logged == Append(st.log, <<Toggled(es, cid), ev.metrics>>)
    IN  IF ev.status # "ok"
        THEN [st EXCEPT !.status = ev.status, !.rng = ev.rng]
        ELSE IF Improves(ev.metrics.expected_profit,
                         st.best_candidate_profit)
        THEN [st EXCEPT !.best_candidate_profit = ev.metrics.expected_profit,
                        !.best_candidate = cid,
                        !.best_candidate_metrics = ev.metrics,
                        !.rng = ev.rng, !.log = logged]
        ELSE [st EXCEPT !.rng = ev.rng, !.log = logged]

\* The loop "for cid in candidates" of one round from index k on.
RECURSIVE GreedyLoop(_, _, _, _)
GreedyLoop(cands, k, es, st) ==
    IF k > Len(cands) \/ st.status # "ok"
    THEN st
    ELSE GreedyLoop(cands, k + 1, es,
             GreedyCompare(es, st, cands[k],
                           Evaluate(Toggled(es, cands[k]), st.rng)))

\* find_best_express_strategy_for_site up to the while loop: the empty
\* express set is evaluated.
GreedyStart ==
    /\ pc = "start"
    /\ engine = "v2"
    /\ \E ev \in {Evaluate({}, rng)} :
           /\ rng' = ev.rng
           /\ express_set' = {}
           /\ IF ev.status = "ok"
              THEN /\ base_profit' = ev.metrics.expected_profit
                   /\ best_metrics' = ev.metrics
                   /\ improved' = TRUE
                   /\ evalLog' = Append(evalLog, <<{}, ev.metrics>>)
                   /\ pc' = "search"
                   /\ UNCHANGED error
              ELSE /\ pc' = "raised"
                   /\ error' = ev.status
                   /\ UNCHANGED <<base_profit, best_metrics, improved, evalLog>>
    /\ UNCHANGED <<request, r, best_set, best_profit, commits, aside>>

\* One iteration of "while improved": every candidate's toggle is evaluated
\* and the best improving one, if any, is committed.
GreedyRound ==
    /\ pc = "search"
    /\ engine = "v2"
    /\ improved
    /\ \E st \in {GreedyLoop(Candidates, 1, express_set,
                     [best_candidate |-> "",
                      best_candidate_profit |-> base_profit,
                      best_candidate_metrics |-> best_metrics,
                      rng |-> rng, log |-> evalLog, status |-> "ok"])} :
           /\ rng' = st.rng
           /\ evalLog' = st.log
           /\ IF st.status # "ok"
              THEN /\ pc' = "raised"
                   /\ error' = st.status
                   /\ UNCHANGED <<express_set, base_profit, best_metrics,
                                  improved, commits>>
              ELSE IF st.best_candidate # ""
              THEN /\ express_set' = Toggled(express_set, st.best_candidate)
                   /\ base_profit' = st.best_candidate_profit
                   /\ best_metrics' = st.best_candidate_metrics
                   /\ improved' = TRUE
                   /\ commits' = commits + 1
                   /\ pc' = "search"
                   /\ UNCHANGED error
              ELSE /\ improved' = FALSE
                   /\ pc' = "search"
                   /\ UNCHANGED <<express_set, base_profit, best_metrics,
                                  commits, error>>
    /\ UNCHANGED <<request, r, best_set, best_profit, aside>>

\* GreedyReturn with the loop left only while improved is set: a round
\* without an improving toggle does not end the search.
GreedyReturnWhileImproved ==
    /\ pc = "search"
    /\ engine = "v2"
    /\ improved
    /\ pc' = "done"
    /\ UNCHANGED <<request, rng, r, best_set, best_profit, express_set,
                   base_profit, improved, best_metrics, commits, evalLog,
                   error, aside>>

\* The while loop ends and express_set, best_metrics are returned.
GreedyReturn ==
    /\ pc = "search"
    /\ engine = "v2"
    /\ ~improved
    /\ pc' = "done"
    /\ UNCHANGED <<request, rng, r, best_set, best_profit, express_set,
                   base_profit, improved, best_metrics, commits, evalLog,
                   error, aside>>

\* ---------------------------------------------------- expected schedule

\* Activity.name of engine.py.
ACTIVITY_NAME_V1 ==
    [a |-> "Order Confirmation", b |-> "Delivery Mechanical",
     c |-> "Delivery Electrical", d |-> "Delivery Casting",
     e |-> "SA Mechanical", f |-> "SA Electrical", g |-> "SA Casting",
     h |-> "In-process QC", i |-> "Final Assembly",
     j |-> "Painting & Curing", k |-> "Packing",
     l |-> "Transport Scheduling", m |-> "Transport", n |-> "Delivery (end)"]

\* Activity.name of engine_v2.py.
ACTIVITY_NAME_V2 ==
    [a |-> "Order Confirmation", b |-> "Mechanical Delivery",
     c |-> "Electrical Delivery", d |-> "Casting Delivery",
     e |-> "SA Mechanical", f |-> "SA Electrical", g |-> "SA Casting",
     h |-> "In-process QC", i |-> "Final Assembly",
     j |-> "Painting & Curing", k |-> "Packing",
     l |-> "Transport Scheduling", m |-> "Transport", n |-> "Delivery (end)"]

\* act.name
ActivityName(eng, act_id) ==
    IF eng = "v1" THEN ACTIVITY_NAME_V1[act_id] ELSE ACTIVITY_NAME_V2[act_id]

\* MeanPert with a sampled duration for the mean: the schedule draws from the
\* generator.
MeanPertSampled(p, pos) == <<6 * SamplePert(p, pos)[1], SamplePert(p, pos)[2]>>

\* "a, m, b = p; mean_pert(a, m, b)" at generator state pos: <<mean, state>>.
\* The mean (a + 4m + b) / 6 is kept as its numerator, so that the times of a
\* schedule are in 1/(6 TimeScale) day; nothing is drawn.
MeanPert(p, pos) == <<mean_pert(p[1], p[2], p[3])[1], pos>>

\* engine.py build_expected_schedule, the body of the loop over ACTIVITIES:
\* <<duration, generator state>>.
schedule_duration_v1(act, expr, missing_parts, pos) ==
    IF act.can_be_missing
       /\ ~(IF act.id \in DOMAIN missing_parts
            THEN missing_parts[act.id] ELSE FALSE)
    THEN <<0, pos>>
    ELSE MeanPert(IF act.id \in expr THEN act.express_pert
                                     ELSE act.normal_pert, pos)

\* GroupMeans without "if pid not in missing_part_ids: continue": the mean of
\* every part of the group is taken, in stock or not.
RECURSIVE GroupMeansOfAllParts(_, _, _, _, _, _)
GroupMeansOfAllParts(site_, pids, k, missing_part_ids, expr, acc) ==
    IF k > Len(pids)
    THEN acc
    ELSE GroupMeansOfAllParts(site_, pids, k + 1, missing_part_ids, expr,
             AppendSample(acc,
                 MeanPert(PartPert(PartById(pids[k]), site_,
                                   pids[k] \in expr), acc[2])))

\* The loop of group_mean_duration over pids = PART_IDS_BY_GROUP[group] from
\* index k on, with acc = <<times, generator state>> so far.
RECURSIVE GroupMeans(_, _, _, _, _, _)
GroupMeans(site_, pids, k, missing_part_ids, expr, acc) ==
    IF k > Len(pids)
    THEN acc
    ELSE IF pids[k] \notin missing_part_ids
    THEN GroupMeans(site_, pids, k + 1, missing_part_ids, expr, acc)
    ELSE GroupMeans(site_, pids, k + 1, missing_part_ids, expr,
             AppendSample(acc,
                 MeanPert(PartPert(PartById(pids[k]), site_,
                                   pids[k] \in expr), acc[2])))

\* engine_v2.py group_mean_duration: <<duration, generator state>>.
group_mean_duration(site_, group, missing_part_ids, expr, pos) ==
    GroupMax(GroupMeans(site_, PART_IDS_BY_GROUP[group], 1,
                        missing_part_ids, expr, <<<<>>, pos>>))

\* engine_v2.py build_expected_schedule, the body of the loop over
\* ACTIVITIES: <<duration, generator state>>.
schedule_duration_v2(site_, act, expr, missing_part_ids, pos) ==
    IF act.id = "b"
    THEN group_mean_duration(site_, "mechanical", missing_part_ids, expr, pos)
    ELSE IF act.id = "c"
    THEN group_mean_duration(site_, "electrical", missing_part_ids, expr, pos)
    ELSE IF act.id = "d"
    THEN group_mean_duration(site_, "casting", missing_part_ids, expr, pos)
    ELSE MeanPert(IF act.id \in expr THEN act.express_pert
                                     ELSE act.normal_pert, pos)

schedule_duration(eng, site_, act, expr, miss, pos) ==
    IF eng = "v1"
    THEN schedule_duration_v1(act, expr, miss, pos)
    ELSE schedule_duration_v2(site_, act, expr, miss, pos)

\* The loop "for act_id, act in ACTIVITIES.items()" of build_expected_schedule
\* from index k on, with acc = <<durations, generator state>> so far.
RECURSIVE MeanDurations(_, _, _, _, _, _, _)
MeanDurations(eng, acts, site_, expr, miss, k, acc) ==
    IF k > Len(acts)
    THEN acc
    ELSE MeanDurations(eng, acts, site_, expr, miss, k + 1,
             PutSample(acc, acts[k].id,
                 schedule_duration(eng, site_, acts[k], expr, miss, acc[2])))

\* "es[act_id] = start; ef[act_id] = es[act_id] + durations[act_id]" on the
\* two dicts cpm = [es, ef].
ScheduleStep(cpm, act_id, start, d) ==
    [es |-> cpm.es @@ (act_id :> start),
     ef |-> cpm.ef @@ (act_id :> start + d)]

\* The first loop over TOPO_ORDER of build_expected_schedule from index k on.
RECURSIVE ScheduleForward(_, _, _, _)
ScheduleForward(eng, durations, k, cpm) ==
    IF k > Len(TOPO_ORDER)
    THEN cpm
    ELSE ScheduleForward(eng, durations, k + 1,
             ScheduleStep(cpm, TOPO_ORDER[k],
                 EarliestStart(ActivityById(eng, TOPO_ORDER[k]).predecessors,
                               cpm.ef),
                 durations[TOPO_ORDER[k]]))

\* The dict appended to schedule for act_id.
ScheduleRow(eng, act_id, cpm, durations) ==
    [ActivityId |-> act_id,
     Activity |-> ActivityName(eng, act_id),
     Start |-> cpm.es[act_id],
     Finish |-> cpm.ef[act_id],
     Duration |-> durations[act_id]]

\* The second loop over TOPO_ORDER from index k on, with the rows appended so
\* far: the dummy "n" is skipped.
RECURSIVE ScheduleRows(_, _, _, _, _)
ScheduleRows(eng, k, cpm, durations, rows) ==
    IF k > Len(TOPO_ORDER)
    THEN rows
    ELSE IF TOPO_ORDER[k] = "n"
    THEN ScheduleRows(eng, k + 1, cpm, durations, rows)
    ELSE ScheduleRows(eng, k + 1, cpm, durations,
             Append(rows, ScheduleRow(eng, TOPO_ORDER[k], cpm, durations)))

\* row placed into the sorted rows after every row that does not start
\* later.
InsertByStart(sorted, row, n) ==
    SubSeq(sorted, 1, n) \o <<row>> \o SubSeq(sorted, n + 1, Len(sorted))

\* schedule.sort(key=lambda x: x["Start"]): the sort is stable, rows of equal
\* Start keep the order they were appended in.  rows from index k on are
\* placed into sorted.
RECURSIVE SortByStart(_, _, _)
SortByStart(rows, k, sorted) ==
    IF k > Len(rows)
    THEN sorted
    ELSE SortByStart(rows, k + 1,
             InsertByStart(sorted, rows[k],
                 Cardinality({i \in 1..Len(sorted) :
                                 sorted[i].Start <= rows[k].Start})))

\* build_expected_schedule from "total_duration = ef["n"]" on, for ds =
\* <<durations, generator state>> and the two dicts cpm.
ScheduleResult(eng, ds, cpm) ==
    [schedule |-> SortByStart(ScheduleRows(eng, 1, cpm, ds[1], <<>>), 1, <<>>),
     total_duration |-> cpm.ef["n"],
     rng |-> ds[2]]

\* build_expected_schedule from the first loop over TOPO_ORDER on.
ScheduleFromDurations(eng, ds) ==
    ScheduleResult(eng, ds,
                   ScheduleForward(eng, ds[1], 1, [es |-> <<>>, ef |-> <<>>]))

\* build_expected_schedule at generator state pos: [schedule,
\* total_duration] and the generator state rng the call leaves behind.  expr
\* is the express set as a set of ids.
build_expected_schedule(eng, site_, expr, miss, pos) ==
    ScheduleFromDurations(eng,
        MeanDurations(eng, ACTIVITIES(eng), site_, expr, miss, 1,
                      <<<<>>, pos>>))

\* What a finished search returned as its express set, as a set of ids.
ReturnedIds == IF engine = "v1" THEN SeqToSet(best_set) ELSE express_set

\* BuildSchedule by a builder that takes the ids out of the express set it is
\* given as it handles them: the caller's set is empty afterwards.
BuildScheduleConsumingSet ==
    /\ pc = "done"
    /\ schedule_calls < MaxScheduleCalls
    /\ \E res \in {build_expected_schedule(engine, site, ReturnedIds, missing,
                                           rng)} :
           /\ schedule' = [schedule |-> res.schedule,
                           total_duration |-> res.total_duration]
           /\ rng' = res.rng
    /\ schedule_calls' = schedule_calls + 1
    /\ best_set' = <<>>
    /\ express_set' = {}
    /\ UNCHANGED <<request, pc, r, best_profit, base_profit, improved,
                   best_metrics, commits, evalLog, error, callVars, appVars, threads, catVars,
                   unitVars>>

\* The application draws the Gantt chart of the returned express set:
\* build_expected_schedule(best_set, missing_parts) in app.py,
\* build_expected_schedule(chosen_site, best_set, sched_missing) in app_v2.py.
BuildSchedule ==
    /\ pc = "done"
    /\ schedule_calls < MaxScheduleCalls
    /\ \E res \in {build_expected_schedule(engine, site, ReturnedIds, missing,
                                           rng)} :
           /\ schedule' = [schedule |-> res.schedule,
                           total_duration |-> res.total_duration]
           /\ rng' = res.rng
    /\ schedule_calls' = schedule_calls + 1
    /\ UNCHANGED <<request, pc, r, best_set, best_profit, express_set,
                   base_profit, improved, best_metrics, commits, evalLog,
                   error, callVars, appVars, threads, catVars,
                   unitVars>>

\* ------------------------------------------- entry points called directly

\* A caller evaluates an express set of its own:
\* evaluate_strategy_for_service(service_type, site, express_set,
\* missing_part_ids, n_samples), in engine.py without the site.
CallEvaluate ==
    /\ pc = "start"
    /\ \E ev \in {evaluate_strategy_for_service(engine, service_type, site,
                        arg_express, missing, n_samples, rng)} :
           /\ rng' = ev.rng
           /\ result' = [status |-> ev.status, metrics |-> ev.metrics]
           /\ error' = IF ev.status = "ok" THEN error ELSE ev.status
           /\ pc' = IF ev.status = "ok" THEN "done" ELSE "raised"
    /\ UNCHANGED <<request, r, best_set, best_profit, express_set,
                   base_profit, improved, best_metrics, commits, evalLog,
                   schedule, schedule_calls, arg_express, appVars,
                   threads, catVars,
                   unitVars>>

\* A caller builds the schedule of an express set of its own.
CallSchedule ==
    /\ pc = "start"
    /\ \E res \in {build_expected_schedule(engine, site,
                        ExprIds(engine, arg_express), missing, rng)} :
           /\ schedule' = [schedule |-> res.schedule,
                           total_duration |-> res.total_duration]
           /\ rng' = res.rng
    /\ schedule_calls' = schedule_calls + 1
    /\ pc' = "done"
    /\ UNCHANGED <<request, r, best_set, best_profit, express_set,
                   base_profit, improved, best_metrics, commits, evalLog,
                   error, arg_express, result, appVars, threads, catVars,
                   unitVars>>

\* ------------------------------------------------------ site comparison

\* AppCall that gives the search the parts missing at either site.
AppCallAllMissing(site_, missing_ids) ==
    /\ site' = site_
    /\ missing' = missing_AT \cup missing_BE
    /\ runs' = Append(runs, <<site_, missing_ids>>)
    /\ pc' = "start"
    /\ commits' = 0
    /\ evalLog' = <<>>
    /\ UNCHANGED <<engine, oracle, service_type, n_samples, stream,
                   anyProfit, rng, r, best_set, best_profit, express_set,
                   base_profit, improved, best_metrics, error, schedule,
                   schedule_calls, callVars, site_mode, missing_AT,
                   missing_BE, threads, catVars,
                   unitVars>>

\* The application calls find_best_express_strategy_for_site(service_type,
\* site_, missing_ids): the search starts with fresh locals.
AppCall(site_, missing_ids) ==
    /\ site' = site_
    /\ missing' = missing_ids
    /\ runs' = Append(runs, <<site_, missing_ids>>)
    /\ pc' = "start"
    /\ commits' = 0
    /\ evalLog' = <<>>
    /\ UNCHANGED <<engine, oracle, service_type, n_samples, stream,
                   anyProfit, rng, r, best_set, best_profit, express_set,
                   base_profit, improved, best_metrics, error, schedule,
                   schedule_calls, callVars, site_mode, missing_AT,
                   missing_BE, threads, catVars,
                   unitVars>>

\* The results of a single-site mode: no other site.
AppSingle(site_) ==
    chosen' = [chosen_site |-> site_, best_set |-> express_set,
               metrics |-> best_metrics, other_site |-> "None",
               other_site_metrics |-> "None"]

\* SiteCompare with ">" for ">=": of two sites of equal profit Belgium is
\* chosen.
SiteCompareStrict(profit_AT, profit_BE) == FracGt(profit_AT, profit_BE)

\* metrics_AT["expected_profit"] >= metrics_BE["expected_profit"]
SiteCompare(profit_AT, profit_BE) == FracGe(profit_AT, profit_BE)

\* The button is pressed: the first search is called, for Austria unless
\* site_mode is "BE".
AppRun ==
    /\ app_pc = "idle"
    /\ IF site_mode = "BE"
       THEN AppCall("BE", missing_BE) /\ app_pc' = "BE"
       ELSE AppCall("AT", missing_AT) /\ app_pc' = "AT"
    /\ UNCHANGED <<best_set_AT, metrics_AT, chosen>>

\* The search for Austria has returned: in mode "AT" its result is the
\* result; in mode "auto" it is kept and the search for Belgium is called.
AppAfterAT ==
    /\ app_pc = "AT"
    /\ pc = "done"
    /\ IF site_mode = "AT"
       THEN /\ AppSingle("AT")
            /\ app_pc' = "shown"
            /\ UNCHANGED <<request, rng, pc, r, best_set, best_profit,
                           express_set, base_profit, improved, best_metrics,
                           commits, evalLog, error, schedule, schedule_calls,
                           callVars, site_mode, missing_AT, missing_BE,
                           best_set_AT, metrics_AT, runs, threads, catVars,
                   unitVars>>
       ELSE /\ best_set_AT' = express_set
            /\ metrics_AT' = best_metrics
            /\ AppCall("BE", missing_BE)
            /\ app_pc' = "BE"
            /\ UNCHANGED chosen

\* The search for Belgium has returned: in mode "BE" its result is the
\* result; in mode "auto" the two expected profits are compared.
AppAfterBE ==
    /\ app_pc = "BE"
    /\ pc = "done"
    /\ IF site_mode = "BE"
       THEN AppSingle("BE")
       ELSE IF SiteCompare(metrics_AT.expected_profit,
                           best_metrics.expected_profit)
       THEN chosen' = [chosen_site |-> "AT", best_set |-> best_set_AT,
                       metrics |-> metrics_AT, other_site |-> "BE",
                       other_site_metrics |-> best_metrics]
       ELSE chosen' = [chosen_site |-> "BE", best_set |-> express_set,
                       metrics |-> best_metrics, other_site |-> "AT",
                       other_site_metrics |-> metrics_AT]
    /\ app_pc' = "shown"
    /\ UNCHANGED <<request, rng, pc, r, best_set, best_profit, express_set,
                   base_profit, improved, best_metrics, commits, evalLog,
                   error, schedule, schedule_calls, callVars, site_mode,
                   missing_AT, missing_BE, best_set_AT, metrics_AT, runs,
                   threads, catVars,
                   unitVars>>

\* ------------------------------------------------ concurrent evaluations

\* Two callers run evaluate_strategy_for_service of the same request, each
\* with an express set of its own, in two threads.  The threads interleave
\* between the trials of simulate_lead_times; random.seed and
\* random.betavariate act on the one generator of the module random.
Threads == {1, 2}

\* What the evaluations leave alone.
parFrame ==
    <<request, pc, r, best_set, best_profit, express_set, base_profit,
      improved, best_metrics, commits, evalLog, error, schedule,
      schedule_calls, callVars, appVars, catVars,
                   unitVars>>

\* Thread t enters evaluate_strategy_for_service: L and margin are set and
\* "if RANDOM_SEED is not None: random.seed(RANDOM_SEED)" reseeds the
\* generator.
ParSeed(t) ==
    /\ threads[t].at = "start"
    /\ service_type \in {"normal", "express"}
    /\ rng' = Reseed(rng)
    /\ threads' = [threads EXCEPT ![t].at = "sampling"]
    /\ UNCHANGED parFrame

\* Thread t runs one pass of "for _ in range(n_samples)" of
\* simulate_lead_times: it draws the durations of one trial from the
\* generator and appends the makespan.
ParTrial(t) ==
    /\ threads[t].at = "sampling"
    /\ Len(threads[t].T_samples) < n_samples
    /\ \E sim \in {AppendTrial(engine, <<threads[t].T_samples, rng>>,
                         SampleDurations(engine, ACTIVITIES(engine), site,
                             ExprIds(engine, threads[t].express_set),
                             missing, 1, <<<<>>, rng>>))} :
           /\ threads' = [threads EXCEPT ![t].T_samples = sim[1]]
           /\ rng' = sim[2]
    /\ UNCHANGED parFrame

\* Thread t leaves simulate_lead_times, computes the metrics of its samples
\* and returns them.
ParReturn(t) ==
    /\ threads[t].at = "sampling"
    /\ Len(threads[t].T_samples) >= n_samples
    /\ \E ev \in {Summarise(engine, site, PromisedLeadTime(service_type),
                        Margin(service_type), threads[t].express_set,
                        missing, <<threads[t].T_samples, rng>>)} :
           threads' = [threads EXCEPT ![t].at = "done",
                                      ![t].metrics = ev.metrics]
    /\ UNCHANGED <<rng, parFrame>>

\* ------------------------------------------------------ catalog loading

\* compute_makespan on the predecessors of a loaded catalog.  st =
\* [status, ef] is the earliest_finish dict so far with status "ok", or
\* status "KeyError" once a lookup earliest_finish[p] has raised.
CatalogStep(st, act_id, preds, d) ==
    IF \E i \in 1..Len(preds) : preds[i] \notin DOMAIN st.ef
    THEN [st EXCEPT !.status = "KeyError"]
    ELSE [st EXCEPT !.ef = st.ef @@ (act_id :> EarliestStart(preds, st.ef) + d)]

\* The loop of compute_makespan over TOPO_ORDER from index k on, for the
\* predecessors cat.
RECURSIVE CatalogForwardPass(_, _, _, _)
CatalogForwardPass(cat, durations, k, st) ==
    IF st.status # "ok" \/ k > Len(TOPO_ORDER)
    THEN st
    ELSE CatalogForwardPass(cat, durations, k + 1,
             CatalogStep(st, TOPO_ORDER[k], cat[TOPO_ORDER[k]],
                         durations[TOPO_ORDER[k]]))

\* return earliest_finish["n"]
CatalogMakespan(st) ==
    IF st.status # "ok" THEN [status |-> st.status, value |-> 0]
                        ELSE [status |-> "ok", value |-> st.ef["n"]]

\* The module body runs: ACTIVITIES, TOPO_ORDER and the candidate lists are
\* assigned as written; nothing inspects them.
LoadCatalog ==
    /\ load = "unloaded"
    /\ load' = "loaded"
    /\ UNCHANGED <<request, rng, pc, r, best_set, best_profit, express_set,
                   base_profit, improved, best_metrics, commits, evalLog,
                   error, schedule, schedule_calls, callVars, appVars,
                   threads, catalog, makespan, unitVars>>

\* One trial of simulate_lead_times on the loaded catalog: the durations are
\* drawn and compute_makespan walks TOPO_ORDER.
CatalogTrial ==
    /\ load = "loaded"
    /\ makespan.status = "none"
    /\ \E ds \in {SampleDurations(engine, ACTIVITIES(engine), site, {},
                                    missing, 1, <<<<>>, Reseed(rng)>>)} :
           /\ makespan' = CatalogMakespan(
                              CatalogForwardPass(catalog, ds[1], 1,
                                  [status |-> "ok", ef |-> <<>>]))
           /\ rng' = ds[2]
    /\ UNCHANGED <<request, pc, r, best_set, best_profit, express_set,
                   base_profit, improved, best_metrics, commits, evalLog,
                   error, schedule, schedule_calls, callVars, appVars,
                   threads, catalog, load, unitVars>>

\* ------------------------------------------- functions called by themselves

\* What a call of one of the functions by itself leaves alone, besides the
\* generator and what it returns.
unitFrame ==
    <<request, pc, r, best_set, best_profit, express_set, base_profit,
      improved, best_metrics, commits, evalLog, error, schedule,
      schedule_calls, callVars, appVars, threads, catalog, load>>

\* A caller calls compute_makespan(durations) with the last assignment of
\* arg_durations.
ComputeMakespan ==
    /\ Len(arg_durations) = 1
    /\ makespan.status = "none"
    /\ earliest_finish' = ForwardPass(engine, arg_durations[1], 1, <<>>)
    /\ makespan' = [status |-> "ok",
                    value |-> compute_makespan(engine, arg_durations[1])]
    /\ UNCHANGED <<unitFrame, rng, arg_durations, pert, drawn, lead,
                   components, group_call, aggregate>>

\* The caller lengthens one stage of the assignment by a number of quarter
\* days and calls compute_makespan again.
Lengthen(stage, by) ==
    /\ Len(arg_durations) = 1
    /\ makespan.status = "ok"
    /\ arg_durations[1][stage] + by <= MaxDuration
    /\ \E d \in {[arg_durations[1] EXCEPT ![stage] = @ + by]} :
           /\ arg_durations' = Append(arg_durations, d)
           /\ earliest_finish' = ForwardPass(engine, d, 1, <<>>)
           /\ makespan' = [status |-> "ok",
                           value |-> compute_makespan(engine, d)]
    /\ UNCHANGED <<unitFrame, rng, pert, drawn, lead, components,
                   group_call, aggregate>>

\* A caller calls sample_pert(a, m, b) with the triple pert, at the state the
\* generator is in.
SamplePertCall ==
    /\ DOMAIN pert # {}
    /\ DOMAIN drawn = {}
    /\ \E t \in {sample_pert(pert[1], pert[2], pert[3], rng)} :
           /\ drawn' = [at |-> rng, value |-> t[1]]
           /\ rng' = t[2]
    /\ UNCHANGED <<unitFrame, makespan, arg_durations, earliest_finish, pert,
                   lead, components, group_call, aggregate>>

\* A caller calls cost_components(T, L) with lead = <<T, L>>.
CostComponentsCall ==
    /\ DOMAIN lead # {}
    /\ DOMAIN components = {}
    /\ components' = cost_components(lead[1], lead[2])
    /\ UNCHANGED <<unitFrame, rng, makespan, arg_durations, earliest_finish,
                   pert, drawn, lead, group_call, aggregate>>

\* sample_group_delivery_time(site, group, missing_part_ids, express_set) for
\* the group of group_call, with arg_express the express set: the times
\* sampled and the delivery time returned.
SampleGroup ==
    /\ engine = "v2"
    /\ DOMAIN group_call # {}
    /\ group_call.kind = "none"
    /\ \E ts \in {GroupTimes(site, GroupPids(group_call.group), 1, missing,
                             arg_express, <<<<>>, rng>>)} :
           /\ group_call' = [group_call EXCEPT !.kind = "sampled",
                                               !.at = rng,
                                               !.times = ts[1],
                                               !.duration = GroupMax(ts)[1]]
           /\ rng' = GroupMax(ts)[2]
    /\ UNCHANGED <<unitFrame, makespan, arg_durations, earliest_finish, pert,
                   drawn, lead, components, aggregate>>

\* group_mean_duration(group) of build_expected_schedule for the same group:
\* the means and the duration returned.
MeanGroup ==
    /\ engine = "v2"
    /\ DOMAIN group_call # {}
    /\ group_call.kind = "none"
    /\ \E ts \in {GroupMeans(site, GroupPids(group_call.group), 1, missing,
                             arg_express, <<<<>>, rng>>)} :
           /\ group_call' = [group_call EXCEPT !.kind = "expected",
                                               !.at = rng,
                                               !.times = ts[1],
                                               !.duration = GroupMax(ts)[1]]
           /\ rng' = GroupMax(ts)[2]
    /\ UNCHANGED <<unitFrame, makespan, arg_durations, earliest_finish, pert,
                   drawn, lead, components, aggregate>>


\* ------------------------------------------------------- float arithmetic

\* Floats are binary: a significand of MantissaBits bits times a power of
\* two, every operation rounded to the nearest float, a tie to the one with
\* an even significand.  A float is held as a whole number of units of
\* 1 / FloatOne; the smallest power of two is that unit.
FloatOne == 2 ^ (MantissaBits + 2)

\* The integer nearest to a / b, a tie going to the even one.
RoundHalfEven(a, b) ==
    IF 2 * (a % b) < b THEN a \div b
    ELSE IF 2 * (a % b) > b THEN (a \div b) + 1
    ELSE IF (a \div b) % 2 = 0 THEN a \div b
    ELSE (a \div b) + 1

\* The least e >= k for which a / (b * 2^e) is below 2^MantissaBits.
RECURSIVE FloatExponent(_, _, _)
FloatExponent(a, b, k) ==
    IF a \div (b * 2 ^ k) < 2 ^ MantissaBits
    THEN k
    ELSE FloatExponent(a, b, k + 1)

\* The float nearest to a / b units.
Float(a, b) ==
    RoundHalfEven(a, b * 2 ^ FloatExponent(a, b, 0))
        * 2 ^ FloatExponent(a, b, 0)

\* x + y and x / n of floats, as computed.
FloatAdd(x, y) == Float(x + y, 1)

FloatDiv(x, n) == Float(x, n)

\* The float of a whole number v (a count, an amount in euro).
FloatOf(v) == Float(v * FloatOne, 1)

\* -------------------------------------------------- the loop over T_samples

\* The sums and counts before the loop "for T in T_samples", the sums floats.
ZeroFloatSums ==
    [sum_discount_cost |-> 0, sum_churn_cost |-> 0, sum_late_cost |-> 0,
     count_on_time |-> 0, count_late |-> 0, count_late_5 |-> 0,
     terms |-> <<>>]

\* The body of the loop for one T with c = cost_components(T, L): the three
\* costs come back as floats and total_cost as their sum in floats; terms
\* keeps what the sample added to each sum.
AddFloatSample(s, c) ==
    [sum_discount_cost |->
         FloatAdd(s.sum_discount_cost, FloatOf(c.discount_cost)),
     sum_churn_cost |-> FloatAdd(s.sum_churn_cost, FloatOf(c.churn_cost)),
     sum_late_cost |->
         FloatAdd(s.sum_late_cost,
                  FloatAdd(FloatOf(c.discount_cost), FloatOf(c.churn_cost))),
     count_on_time |-> s.count_on_time + (IF c.delay <= 0 THEN 1 ELSE 0),
     count_late |-> s.count_late + (IF c.delay <= 0 THEN 0 ELSE 1),
     count_late_5 |->
         s.count_late_5 + (IF c.delay > 5 * TimeScale THEN 1 ELSE 0),
     terms |-> Append(s.terms,
                   [on_time |-> c.delay <= 0,
                    delay |-> c.delay,
                    p_churn |-> c.p_churn,
                    discount_cost |-> FloatOf(c.discount_cost),
                    churn_cost |-> FloatOf(c.churn_cost),
                    total_cost |-> FloatAdd(FloatOf(c.discount_cost),
                                            FloatOf(c.churn_cost))])]

\* The loop "for T in T_samples" from index k on.
RECURSIVE FloatSums(_, _, _, _)
FloatSums(T_samples, L, k, s) ==
    IF k > Len(T_samples)
    THEN s
    ELSE FloatSums(T_samples, L, k + 1,
                   AddFloatSample(s, cost_components(T_samples[k], L)))

\* The divisions by n = len(T_samples) after the loop.
FloatMetrics(s, n) ==
    [prob_on_time |-> FloatDiv(FloatOf(s.count_on_time), n),
     prob_late |-> FloatDiv(FloatOf(s.count_late), n),
     prob_more_than_5_late |-> FloatDiv(FloatOf(s.count_late_5), n),
     expected_discount_cost |-> FloatDiv(s.sum_discount_cost, n),
     expected_churn_cost |-> FloatDiv(s.sum_churn_cost, n),
     expected_late_cost |-> FloatDiv(s.sum_late_cost, n)]

\* evaluate_strategy_for_service from "n = len(T_samples)" to the divisions,
\* for the samples and the promised lead time of aggregate.
AggregateCall ==
    /\ DOMAIN aggregate # {}
    /\ aggregate.status = "none"
    /\ \E s \in {FloatSums(aggregate.T_samples, aggregate.L, 1,
                           ZeroFloatSums)} :
           aggregate' = [aggregate EXCEPT
                             !.status = "ok",
                             !.terms = s.terms,
                             !.metrics = FloatMetrics(s,
                                             Len(aggregate.T_samples))]
    /\ UNCHANGED <<unitFrame, rng, makespan, arg_durations, earliest_finish,
                   pert, drawn, lead, components, group_call>>
\* --------------------------------------------------------- specification

PartIds == SeqToSet(PART_EXPRESS_CANDIDATES)

\* The searches' locals before a search runs, and nothing called yet.
Locals ==
    /\ r = 0
    /\ best_set = <<>>
    /\ best_profit = NEG_INF
    /\ express_set = {}
    /\ base_profit = NEG_INF
    /\ improved = FALSE
    /\ best_metrics = NoMetrics
    /\ commits = 0
    /\ evalLog = <<>>
    /\ error = ""
    /\ schedule = <<>>
    /\ schedule_calls = 0
    /\ result = <<>>
    /\ app_pc = "idle"
    /\ best_set_AT = {}
    /\ metrics_AT = NoMetrics
    /\ chosen = <<>>
    /\ runs = <<>>

\* None of the functions has been called by itself.
NoUnitCalls ==
    /\ arg_durations = <<>>
    /\ earliest_finish = <<>>
    /\ pert = <<>>
    /\ drawn = <<>>
    /\ lead = <<>>
    /\ components = <<>>
    /\ group_call = <<>>
    /\ aggregate = <<>>

\* A search is about to be called.
Idle ==
    /\ pc = "start"
    /\ Locals

\* The predecessors of the ACTIVITIES literal of engine eng.
PredecessorsOf(eng) ==
    [id \in {ACTIVITIES(eng)[i].id : i \in 1..Len(ACTIVITIES(eng))} |->
        ActivityById(eng, id).predecessors]

\* The module has been imported with the catalog as shipped.
ShippedCatalog ==
    /\ catalog = PredecessorsOf(engine)
    /\ load = "loaded"
    /\ makespan = [status |-> "none", value |-> 0]

\* The entry points are called without the application of app_v2.py.
NoApp ==
    /\ site_mode = ""
    /\ missing_AT = {}
    /\ missing_BE = {}

\* A request to either engine, evaluated by simulation: a service level
\* (one of them not a level of the catalog), the missing parts, any trial
\* count, and the module-global generator in any state earlier draws left.
Init ==
    /\ engine \in {"v1", "v2"}
    /\ oracle = "sim"
    /\ service_type \in {"normal", "express", "premium"}
    /\ site \in (IF engine = "v1" THEN {""} ELSE {"AT", "BE"})
    /\ missing \in (IF engine = "v1" THEN [{"b", "c", "d"} -> BOOLEAN]
                                     ELSE SUBSET PartIds)
    /\ n_samples \in (-1)..MaxSamples
    /\ stream \in [1..StreamLen -> 0..MaxLevel]
    /\ anyProfit = <<>>
    /\ rng \in 0..(StreamLen - 1)
    /\ arg_express = {}
    /\ NoApp
    /\ threads = <<>>
    /\ ShippedCatalog
    /\ NoUnitCalls
    /\ Idle

Next ==
    \/ ExhaustiveStart
    \/ ExhaustiveSize
    \/ GreedyStart
    \/ GreedyRound
    \/ GreedyReturn
    \/ BuildSchedule

Spec == Init /\ [][Next]_vars

\* A greedy search against an arbitrary deterministic evaluation: the
\* expected profit of every express set is any value up to max_profit, fixed
\* for the search.  The empty set's profit is 0 and no profit is below it: a
\* set of lower profit than the empty set's is, like one of equal profit,
\* never an improvement on any committed set.
InitAnyUpTo(max_profit) ==
    /\ engine = "v2"
    /\ oracle = "any"
    /\ service_type = "normal"
    /\ site = "AT"
    /\ missing = {}
    /\ n_samples = 1
    /\ stream = [i \in 1..StreamLen |-> 0]
    /\ \E g \in [(SUBSET SeqToSet(Prefix(get_all_express_candidates,
                                         NumAnyCands))) \ {{}}
                   -> 0..max_profit] :
          anyProfit = g @@ ({} :> 0)
    /\ rng = 0
    /\ arg_express = {}
    /\ NoApp
    /\ threads = <<>>
    /\ ShippedCatalog
    /\ NoUnitCalls
    /\ Idle

InitAny == InitAnyUpTo(MaxAnyProfit)

NextAny ==
    \/ GreedyStart
    \/ GreedyRound
    \/ GreedyReturn

SpecAny == InitAny /\ [][NextAny]_vars

InitFair == InitAnyUpTo(MaxFairProfit)

\* The search is one call that runs until it returns: a step is taken
\* whenever one is enabled.
FairSpecAny == InitFair /\ [][NextAny]_vars /\ WF_vars(NextAny)


\* The express sets a caller passes in itself: ids of candidates, of a stage
\* that is no candidate ("a"), and an id the catalog does not know.  An
\* express set is a list in engine.py and a set in engine_v2.py.
UNKNOWN_ID == "zz"

ArgExpress(eng) ==
    IF eng = "v1"
    THEN {<<>>, <<"e">>, <<"b", "h">>, <<"a">>, <<UNKNOWN_ID>>,
          <<"e", UNKNOWN_ID>>}
    ELSE {{}, {"e"}, {PART_EXPRESS_CANDIDATES[1], "h"}, {"a"}, {UNKNOWN_ID},
          {"e", UNKNOWN_ID}}

\* A caller calls evaluate_strategy_for_service or build_expected_schedule
\* once, with an express set of its own.
InitCalls ==
    /\ engine \in {"v1", "v2"}
    /\ oracle = "sim"
    /\ service_type \in {"normal", "express"}
    /\ site \in (IF engine = "v1" THEN {""} ELSE {"AT", "BE"})
    /\ missing \in (IF engine = "v1" THEN [{"b", "c", "d"} -> BOOLEAN]
                                     ELSE SUBSET PartIds)
    /\ n_samples \in 1..MaxSamples
    /\ stream \in [1..StreamLen -> 0..MaxLevel]
    /\ anyProfit = <<>>
    /\ rng \in 0..(StreamLen - 1)
    /\ arg_express \in ArgExpress(engine)
    /\ NoApp
    /\ threads = <<>>
    /\ ShippedCatalog
    /\ NoUnitCalls
    /\ Idle

NextCalls ==
    \/ CallEvaluate
    \/ CallSchedule

SpecCalls == InitCalls /\ [][NextCalls]_vars

\* The application of app_v2.py: a service level, a site mode and the parts
\* missing at either site are selected and the button is pressed.  The
\* application calls the searches with the default trial count N_SAMPLES,
\* here n_samples.
InitApp ==
    /\ engine = "v2"
    /\ oracle = "sim"
    /\ service_type \in {"normal", "express"}
    /\ site_mode \in {"AT", "BE", "auto"}
    /\ missing_AT \in SUBSET PartIds
    /\ missing_BE \in SUBSET PartIds
    /\ site = ""
    /\ missing = {}
    /\ n_samples = MaxSamples
    /\ stream \in [1..StreamLen -> 0..MaxLevel]
    /\ anyProfit = <<>>
    /\ rng = 0
    /\ arg_express = {}
    /\ threads = <<>>
    /\ ShippedCatalog
    /\ NoUnitCalls
    /\ pc = "idle"
    /\ Locals

NextApp ==
    \/ AppRun
    \/ GreedyStart
    \/ GreedyRound
    \/ GreedyReturn
    \/ AppAfterAT
    \/ AppAfterBE

SpecApp == InitApp /\ [][NextApp]_vars

\* The express sets of the concurrent evaluations.
ParExpress(eng) ==
    IF eng = "v1" THEN {<<>>, <<"e">>} ELSE {{}, {"e"}}

\* Two evaluations of one request are started in two threads.
InitPar ==
    /\ engine \in {"v1", "v2"}
    /\ oracle = "sim"
    /\ service_type \in {"normal", "express"}
    /\ site \in (IF engine = "v1" THEN {""} ELSE {"AT", "BE"})
    /\ missing \in (IF engine = "v1" THEN [{"b", "c", "d"} -> BOOLEAN]
                                     ELSE SUBSET PartIds)
    /\ n_samples \in 1..MaxSamples
    /\ stream \in [1..StreamLen -> 0..MaxLevel]
    /\ anyProfit = <<>>
    /\ rng = 0
    /\ arg_express = {}
    /\ NoApp
    /\ threads \in [Threads ->
           {[express_set |-> es, at |-> "start", T_samples |-> <<>>,
             metrics |-> NoMetrics] : es \in ParExpress(engine)}]
    /\ ShippedCatalog
    /\ NoUnitCalls
    /\ pc = "idle"
    /\ Locals

NextPar ==
    \E t \in Threads :
        \/ ParSeed(t)
        \/ ParTrial(t)
        \/ ParReturn(t)

SpecPar == InitPar /\ [][NextPar]_vars

\* An id no stage has.
UNKNOWN_STAGE == "z"

\* The ACTIVITIES literal as shipped, or with the predecessors of one stage
\* rewritten to at most one stage id, known or not: among them catalogs with
\* an unknown predecessor, with a cycle, and with more than one sink.
CatalogEdits(eng) ==
    {PredecessorsOf(eng)}
    \cup {[PredecessorsOf(eng) EXCEPT ![id] = ps] :
             id \in DOMAIN PredecessorsOf(eng),
             ps \in {<<>>} \cup {<<p>> : p \in DOMAIN PredecessorsOf(eng)
                                               \cup {UNKNOWN_STAGE}}}

\* The module of either engine is imported with such a catalog, and one
\* trial is simulated.
InitCatalog ==
    /\ engine \in {"v1", "v2"}
    /\ oracle = "sim"
    /\ service_type = "normal"
    /\ site = (IF engine = "v1" THEN "" ELSE "AT")
    /\ missing = (IF engine = "v1" THEN [id \in {"b", "c", "d"} |-> TRUE]
                                    ELSE PartIds)
    /\ n_samples = 1
    /\ stream \in [1..StreamLen -> 0..MaxLevel]
    /\ anyProfit = <<>>
    /\ rng = 0
    /\ arg_express = {}
    /\ NoApp
    /\ threads = <<>>
    /\ catalog \in CatalogEdits(engine)
    /\ load = "unloaded"
    /\ makespan = [status |-> "none", value |-> 0]
    /\ NoUnitCalls
    /\ pc = "idle"
    /\ Locals

NextCatalog ==
    \/ LoadCatalog
    \/ CatalogTrial

SpecCatalog == InitCatalog /\ [][NextCatalog]_vars

\* The stages that lie on one of the parallel branches of the network; the
\* others follow one another.
BranchStages == {"b", "c", "d", "e", "f", "g", "k", "l"}

\* The assignments compute_makespan is called with by itself: any duration up
\* to MaxDuration for every stage of a branch, and one duration up to
\* MaxDuration shared by the other stages.
DurationAssignments(eng) ==
    {[id \in DOMAIN PredecessorsOf(eng) |->
         IF id \in BranchStages THEN branch[id] ELSE other] :
     branch \in [BranchStages -> 0..MaxDuration], other \in 0..MaxDuration}

\* A request that plays no part in the call of one of the functions by
\* itself: either engine, nothing missing, the generator at any state.
UnitRequest ==
    /\ engine \in {"v1", "v2"}
    /\ oracle = "sim"
    /\ service_type = "normal"
    /\ site = (IF engine = "v1" THEN "" ELSE "AT")
    /\ missing = (IF engine = "v1" THEN [id \in {"b", "c", "d"} |-> FALSE]
                                    ELSE {})
    /\ n_samples = 1
    /\ anyProfit = <<>>
    /\ arg_express = {}
    /\ NoApp
    /\ threads = <<>>
    /\ ShippedCatalog
    /\ pc = "idle"
    /\ Locals

\* compute_makespan is called with an assignment of durations, and again with
\* one stage lengthened.
InitCpm ==
    /\ UnitRequest
    /\ stream = [i \in 1..StreamLen |-> 0]
    /\ rng = 0
    /\ arg_durations \in {<<d>> : d \in DurationAssignments(engine)}
    /\ earliest_finish = <<>>
    /\ pert = <<>>
    /\ drawn = <<>>
    /\ lead = <<>>
    /\ components = <<>>
    /\ group_call = <<>>
    /\ aggregate = <<>>

NextCpm ==
    \/ ComputeMakespan
    \/ \E stage \in DOMAIN PredecessorsOf(engine), by \in 1..MaxDuration :
           Lengthen(stage, by)

SpecCpm == InitCpm /\ [][NextCpm]_vars

\* sample_pert is called with a triple a <= m <= b of parameters up to
\* MaxPert, at any state of the generator.
InitPert ==
    /\ UnitRequest
    /\ stream \in [1..StreamLen -> 0..MaxLevel]
    /\ rng \in 0..(StreamLen - 1)
    /\ pert \in {<<a, m, b>> : a \in 0..MaxPert, m \in 0..MaxPert,
                               b \in 0..MaxPert}
    /\ pert[1] <= pert[2]
    /\ pert[2] <= pert[3]
    /\ arg_durations = <<>>
    /\ earliest_finish = <<>>
    /\ drawn = <<>>
    /\ lead = <<>>
    /\ components = <<>>
    /\ group_call = <<>>
    /\ aggregate = <<>>

NextPert == SamplePertCall

SpecPert == InitPert /\ [][NextPert]_vars

\* cost_components is called with a makespan T up to MaxMakespan and one of
\* the two promised lead times.
InitCost ==
    /\ UnitRequest
    /\ stream = [i \in 1..StreamLen |-> 0]
    /\ rng = 0
    /\ lead \in {<<T, L * TimeScale>> : T \in 0..MaxMakespan,
                                        L \in {L_NORMAL, L_EXPRESS}}
    /\ arg_durations = <<>>
    /\ earliest_finish = <<>>
    /\ pert = <<>>
    /\ drawn = <<>>
    /\ components = <<>>
    /\ group_call = <<>>
    /\ aggregate = <<>>

NextCost == CostComponentsCall

SpecCost == InitCost /\ [][NextCost]_vars

\* The express sets the duration rule is looked at with in engine.py.
RuleExpress == {<<>>, <<"b">>, <<"c", "e">>, <<"e", "h">>}

\* The duration rule by itself.  In engine_v2.py the delivery time of one
\* group is sampled, or its expected value taken, for any missing parts among
\* the first GroupParts parts of the group and any of them expedited, alone
\* or with the stage "e"; in either engine the expected schedule is built
\* for the same inputs.
InitRule ==
    /\ engine \in {"v1", "v2"}
    /\ oracle = "sim"
    /\ service_type = "normal"
    /\ n_samples = 1
    /\ stream \in [1..StreamLen -> 0..MaxLevel]
    /\ anyProfit = <<>>
    /\ rng \in 0..(StreamLen - 1)
    /\ IF engine = "v1"
       THEN /\ site = ""
            /\ missing \in [{"b", "c", "d"} -> BOOLEAN]
            /\ arg_express \in RuleExpress
            /\ group_call = <<>>
       ELSE /\ site \in {"AT", "BE"}
            /\ \E g \in {"mechanical", "electrical", "casting"} :
                   /\ group_call = [group |-> g, kind |-> "none", at |-> 0,
                                    times |-> <<>>, duration |-> 0]
                   /\ missing \in SUBSET SeqToSet(GroupPids(g))
                   /\ arg_express \in SUBSET (SeqToSet(GroupPids(g))
                                                  \cup {"e"})
    /\ NoApp
    /\ threads = <<>>
    /\ ShippedCatalog
    /\ Idle
    /\ arg_durations = <<>>
    /\ earliest_finish = <<>>
    /\ pert = <<>>
    /\ drawn = <<>>
    /\ lead = <<>>
    /\ components = <<>>
    /\ aggregate = <<>>

NextRule ==
    \/ SampleGroup
    \/ MeanGroup
    \/ CallSchedule

SpecRule == InitRule /\ [][NextRule]_vars

\* The lists of n samples, every sample a makespan up to MaxMakespan.
RECURSIVE SampleLists(_)
SampleLists(n) ==
    IF n = 0
    THEN {<<>>}
    ELSE {Append(l, T) : l \in SampleLists(n - 1), T \in 0..MaxMakespan}

\* The loop over T_samples by itself: any 1 to MaxSamples samples and either
\* promised lead time.
InitMetrics ==
    /\ UnitRequest
    /\ stream = [i \in 1..StreamLen |-> 0]
    /\ rng = 0
    /\ arg_durations = <<>>
    /\ earliest_finish = <<>>
    /\ pert = <<>>
    /\ drawn = <<>>
    /\ lead = <<>>
    /\ components = <<>>
    /\ group_call = <<>>
    /\ \E n \in 1..MaxSamples, L \in {L_NORMAL, L_EXPRESS} :
           \E l \in SampleLists(n) :
               aggregate = [T_samples |-> l, L |-> L * TimeScale,
                            status |-> "none", terms |-> <<>>,
                            metrics |-> FloatMetrics(ZeroFloatSums, 1)]

NextMetrics == AggregateCall

SpecMetrics == InitMetrics /\ [][NextMetrics]_vars
\* ------------------------------------------------------------ properties

\* The express set a search holds as its answer: best_set of the exhaustive
\* search, express_set of the greedy search.
Incumbent == IF engine = "v1" THEN best_set ELSE express_set

\* The same as a set of ids.
Returned == ExprIds(engine, Incumbent)

\* A search has evaluated at least one express set.
HasIncumbent == pc \in {"search", "done"} /\ best_metrics # NoMetrics

\* The express set and the expected profit of the i-th evaluation made.
LogSet(i) == evalLog[i][1]

LogProfit(i) == evalLog[i][2].expected_profit

\* Position of an activity in EXPRESS_CANDIDATES.
CandIndex(cid) ==
    CHOOSE i \in 1..Len(EXPRESS_CANDIDATES) : EXPRESS_CANDIDATES[i] = cid

\* Smallest element of a non-empty set of numbers.
MinOf(S) == CHOOSE i \in S : \A j \in S : i <= j

\* Subset A comes before subset B in the order "by increasing size, then
\* itertools.combinations order" (lexicographic in the candidates' positions:
\* of two subsets of one size the earlier holds the earliest candidate they
\* do not share).
EnumeratedBefore(A, B) ==
    \/ Cardinality(A) < Cardinality(B)
    \/ /\ Cardinality(A) = Cardinality(B)
       /\ A # B
       /\ MinOf({CandIndex(c) : c \in (A \ B) \cup (B \ A)})
              \in {CandIndex(c) : c \in A \ B}

\* C1: when the exhaustive search returns, it has evaluated every subset of
\* EXPRESS_CANDIDATES once, by increasing size and then in combinations
\* order; the returned set's expected profit is at least that of every
\* subset, and every subset enumerated before the returned one has a
\* strictly smaller profit (the returned set is the first of maximal profit).
C1_ExhaustiveOptimalFirstSeen ==
    (pc = "done" /\ engine = "v1") =>
        /\ Len(evalLog) = 2 ^ Len(EXPRESS_CANDIDATES)
        /\ {LogSet(i) : i \in 1..Len(evalLog)}
               = SUBSET SeqToSet(EXPRESS_CANDIDATES)
        /\ \A i \in 1..(Len(evalLog) - 1) :
               EnumeratedBefore(LogSet(i), LogSet(i + 1))
        /\ \A i \in 1..Len(evalLog) : FracGe(best_profit, LogProfit(i))
        /\ \E i \in 1..Len(evalLog) :
               /\ LogSet(i) = SeqToSet(best_set)
               /\ LogProfit(i) = best_profit
               /\ \A j \in 1..(i - 1) : FracGt(best_profit, LogProfit(j))
        /\ best_metrics.expected_profit = best_profit

\* An exhaustive search has returned a non-empty set although another subset
\* reaches the same maximal profit.
C1_Witness ==
    /\ pc = "done"
    /\ engine = "v1"
    /\ best_set # <<>>
    /\ \E j \in 1..Len(evalLog) :
           LogSet(j) # SeqToSet(best_set) /\ LogProfit(j) = best_profit

\* C2: in every step of the greedy search's while loop the committed profit
\* base_profit does not fall, and whenever a toggle is committed (the express
\* set, the profit or the count of commits changes) base_profit rises by more
\* than 1e-6.
C2_CommittedProfitRises ==
    [][(engine = "v2" /\ pc = "search") =>
          /\ FracGe(base_profit', base_profit)
          /\ (\/ commits' # commits
              \/ express_set' # express_set
              \/ base_profit' # base_profit)
                 => /\ ExceedsByEps(base_profit', base_profit)
                    /\ commits' = commits + 1
                    /\ best_metrics'.expected_profit = base_profit']_vars

\* A simulated greedy search has committed two toggles.
C2_Witness ==
    /\ engine = "v2"
    /\ oracle = "sim"
    /\ pc = "search"
    /\ commits >= 2

\* C3: whatever expected profit the evaluation assigns to each express set,
\* the greedy search eventually returns.
C3_GreedyTerminates == <>(pc = "done")

\* A greedy search over arbitrary profits has returned after two commits.
C3_Witness ==
    /\ oracle = "any"
    /\ pc = "done"
    /\ commits = 2

\* C4 as stated: the greedy search commits at most as many toggles as there
\* are candidates.
C4_CommitsAtMostCandidates == commits <= Len(Candidates)

\* C4 amended: the greedy search commits fewer toggles than there are subsets
\* of the candidates (every commit reaches a set of strictly higher profit
\* than all sets committed before, so no set is committed twice).
C4_CommitsBelowSubsets == commits <= 2 ^ Len(Candidates) - 1

\* A greedy search over arbitrary profits has returned after more commits
\* than there are candidates.
C4_Witness ==
    /\ oracle = "any"
    /\ pc = "done"
    /\ commits > Len(Candidates)

\* The express set that differs from S in candidate c alone.
SingleFlip(S, c) == (S \ {c}) \cup ({c} \ S)

\* C5: when the greedy search returns set S with profit P, every set that
\* differs from S in exactly one candidate has been evaluated, and no
\* evaluation of such a set gave a profit above P + 1e-6.
C5_SingleFlipLocalOptimum ==
    (pc = "done" /\ engine = "v2") =>
        /\ best_metrics.expected_profit = base_profit
        /\ \A c \in SeqToSet(Candidates) :
               \E i \in 1..Len(evalLog) :
                   LogSet(i) = SingleFlip(express_set, c)
        /\ \A i \in 1..Len(evalLog) :
               (\E c \in SeqToSet(Candidates) :
                    LogSet(i) = SingleFlip(express_set, c))
                   => ~ExceedsByEps(LogProfit(i), base_profit)

\* A simulated greedy search has returned a non-empty set after at least two
\* commits.
C5_Witness ==
    /\ pc = "done"
    /\ engine = "v2"
    /\ oracle = "sim"
    /\ express_set # {}
    /\ commits >= 2

\* C6: an evaluation's metrics do not depend on the draws made before it:
\* evaluating the incumbent set again, at any generator state, returns the
\* metrics the search obtained for it; and whenever a finished greedy search
\* has evaluated one express set several times, all those evaluations
\* returned the same metrics.
C6_FixedSeedDeterminism ==
    /\ HasIncumbent =>
           \A pos \in 0..(StreamLen - 1) :
               Evaluate(Incumbent, pos).metrics = best_metrics
    /\ (pc = "done" /\ engine = "v2") =>
           \A i \in 1..Len(evalLog) : \A j \in (i + 1)..Len(evalLog) :
               LogSet(i) = LogSet(j) => evalLog[i][2] = evalLog[j][2]

\* A finished greedy search has evaluated one express set twice, the second
\* time after further draws.
C6_Witness ==
    /\ pc = "done"
    /\ engine = "v2"
    /\ rng > 0
    /\ \E i \in 1..Len(evalLog) : \E j \in (i + 1)..Len(evalLog) :
           LogSet(i) = LogSet(j)

\* Sum of the per-sample total late cost over T_samples from index k on.
RECURSIVE SumLate(_, _, _)
SumLate(T_samples, L, k) ==
    IF k > Len(T_samples)
    THEN 0
    ELSE cost_components(T_samples[k], L).total + SumLate(T_samples, L, k + 1)

\* Metrics m carry the promised lead time and margin of the request's
\* service, and expected_profit = margin - express_cost - expected_late_cost
\* over n_samples samples.
ProfitIdentity(m) ==
    /\ service_type = "normal" =>
           m.L = 14 * TimeScale /\ m.margin = BASE_MARGIN
    /\ service_type = "express" =>
           /\ m.L = 7 * TimeScale
           /\ m.margin = BASE_MARGIN + EXPRESS_SURCHARGE
    /\ m.expected_late_cost[2] = n_samples
    /\ m.expected_profit =
           <<(m.margin - m.express_cost) * n_samples - m.expected_late_cost[1],
             n_samples>>

\* C7: the metrics of every evaluation have L = 14 days and margin
\* BASE_MARGIN for service normal, L = 7 days and margin BASE_MARGIN +
\* EXPRESS_SURCHARGE for service express, and expected_profit = margin -
\* express_cost - expected_late_cost; the incumbent's expected_late_cost is
\* the mean over the samples of cost_components' total.
C7_ProfitEvaluation ==
    /\ HasIncumbent =>
           /\ ProfitIdentity(best_metrics)
           /\ best_metrics.expected_late_cost[1] =
                  SumLate(simulate_lead_times(engine, site, Returned, missing,
                                              n_samples, Seed(RANDOM_SEED))[1],
                          best_metrics.L, 1)
    /\ engine = "v2" =>
           \A i \in 1..Len(evalLog) : ProfitIdentity(evalLog[i][2])

\* A search for the express service over several samples has returned a set
\* with an express cost and a late cost.
C7_Witness ==
    /\ pc = "done"
    /\ service_type = "express"
    /\ n_samples > 1
    /\ best_metrics.express_cost > 0
    /\ best_metrics.expected_late_cost[1] > 0

\* id names a component (engine.py: an activity that can be missing;
\* engine_v2.py: a part) rather than a stage.
IsComponent(id) ==
    IF engine = "v1" THEN ActivityById("v1", id).can_be_missing
                     ELSE id \in PartIds

\* id is in the request's missing set.
IsMissing(id) ==
    IF engine = "v1" THEN id \in DOMAIN missing /\ missing[id]
                     ELSE id \in missing

\* express_cost of a stage or component.
ExpressCostOf(id) ==
    IF engine = "v1" THEN ActivityById("v1", id).express_cost
    ELSE IF id \in PartIds THEN PartById(id).express_cost
    ELSE ActivityById("v2", id).express_cost

\* Sum of ExpressCostOf over a set of ids.
RECURSIVE SumCost(_)
SumCost(S) ==
    IF S = {}
    THEN 0
    ELSE LET id == CHOOSE x \in S : TRUE
         IN  ExpressCostOf(id) + SumCost(S \ {id})

\* The cost an express set S should have: every stage in S, and every
\* component in S that is missing.
SpecifiedExpressCost(S) ==
    SumCost({id \in S : ~IsComponent(id) \/ IsMissing(id)})

\* C8: the express cost of every evaluated express set is the sum of
\* express_cost over its stages plus the sum over its components that are in
\* the missing set; a component that is not missing adds nothing.
C8_InternalExpressCost ==
    /\ HasIncumbent => best_metrics.express_cost = SpecifiedExpressCost(Returned)
    /\ engine = "v2" =>
           \A i \in 1..Len(evalLog) :
               evalLog[i][2].express_cost = SpecifiedExpressCost(LogSet(i))

\* The greedy search has evaluated an express set holding a stage, a missing
\* part and a part that is not missing.
C8_Witness ==
    /\ engine = "v2"
    /\ \E i \in 1..Len(evalLog) :
           /\ LogSet(i) \ PartIds # {}
           /\ (LogSet(i) \cap PartIds) \cap missing # {}
           /\ (LogSet(i) \cap PartIds) \ missing # {}

\* The empty express set, as each engine passes it.
EmptyExpress == IF engine = "v1" THEN <<>> ELSE {}

\* C9: when a search returns a non-empty express set, the first set it
\* evaluated was the empty one, the returned profit is strictly greater than
\* the empty set's, and the returned set's express cost is smaller than the
\* expected late cost it saves over the empty set.
C9_ExpressOnlyWhenItPays ==
    (pc = "done" /\ Returned # {}) =>
        /\ LogSet(1) = {}
        /\ FracGt(best_metrics.expected_profit, LogProfit(1))
        /\ best_metrics.express_cost * n_samples
               < Evaluate(EmptyExpress, rng).metrics.expected_late_cost[1]
                 - best_metrics.expected_late_cost[1]

\* A search has returned an express set of at least two options.
C9_Witness ==
    /\ pc = "done"
    /\ oracle = "sim"
    /\ Cardinality(Returned) >= 2

\* No component is missing in the request.
NothingMissing ==
    IF engine = "v1" THEN \A id \in DOMAIN missing : ~missing[id]
                     ELSE missing = {}

\* C10: for service normal with nothing missing, whatever the durations
\* drawn, the search returns the empty express set with expected late cost 0
\* and expected profit BASE_MARGIN.
C10_ScenarioA ==
    (pc = "done" /\ service_type = "normal" /\ NothingMissing) =>
        /\ Returned = {}
        /\ best_metrics.express_cost = 0
        /\ best_metrics.expected_late_cost = <<0, n_samples>>
        /\ best_metrics.expected_profit = <<BASE_MARGIN * n_samples, n_samples>>

\* A search for service normal with nothing missing has returned, having
\* drawn durations at the upper end of their ranges.
C10_Witness ==
    /\ pc = "done"
    /\ service_type = "normal"
    /\ NothingMissing
    /\ \A i \in 1..StreamLen : stream[i] = 1

\* ------------------------------------------------------ site comparison

Auto == app_pc = "shown" /\ site_mode = "auto"

\* The metrics an evaluation of express set es at site site_ with the parts
\* missing_ids missing gives on its own.
OwnMetrics(site_, es, missing_ids) ==
    evaluate_strategy_for_service("v2", service_type, site_, es, missing_ids,
                                  n_samples, 0).metrics

\* C11 as stated: in automatic mode the chosen site's optimized expected
\* profit is strictly higher than the other site's.
C11_ChosenSiteStrictlyBetter ==
    Auto => FracGt(chosen.metrics.expected_profit,
                   chosen.other_site_metrics.expected_profit)

\* C11, amended: in automatic mode the search is called once for Austria with
\* the parts missing in Austria and once for Belgium with the parts missing
\* in Belgium; the chosen site's optimized expected profit is at least the
\* other site's, Belgium is chosen only if its profit is strictly higher and
\* Austria is chosen when the two are equal; the returned express set and
\* metrics are those the search found for the chosen site, and the other
\* site and the metrics its search found are reported as well.
C11_SiteComparison ==
    Auto =>
        /\ runs = << <<"AT", missing_AT>>, <<"BE", missing_BE>> >>
        /\ metrics_AT = OwnMetrics("AT", best_set_AT, missing_AT)
        /\ best_metrics = OwnMetrics("BE", express_set, missing_BE)
        /\ FracGe(chosen.metrics.expected_profit,
                  chosen.other_site_metrics.expected_profit)
        /\ chosen.chosen_site = "BE" <=>
               FracGt(best_metrics.expected_profit,
                      metrics_AT.expected_profit)
        /\ chosen.chosen_site = "AT" =>
               /\ chosen.best_set = best_set_AT
               /\ chosen.metrics = metrics_AT
               /\ chosen.other_site = "BE"
               /\ chosen.other_site_metrics = best_metrics
        /\ chosen.chosen_site = "BE" =>
               /\ chosen.best_set = express_set
               /\ chosen.metrics = best_metrics
               /\ chosen.other_site = "AT"
               /\ chosen.other_site_metrics = metrics_AT
        /\ chosen.chosen_site \in {"AT", "BE"}

\* In automatic mode, with different parts missing at the two sites, Austria
\* has been chosen for a strictly higher profit and a non-empty express set.
C11_Witness ==
    /\ Auto
    /\ missing_AT # missing_BE
    /\ missing_AT # {}
    /\ chosen.chosen_site = "AT"
    /\ chosen.best_set # {}
    /\ FracGt(chosen.metrics.expected_profit,
              chosen.other_site_metrics.expected_profit)

\* ------------------------------------------------------ invalid requests

KnownService == service_type \in {"normal", "express"}

\* C12: a service level other than "normal" and "express" is rejected with
\* ValueError by the first evaluation a search makes, so by the evaluation
\* and by both searches: no search of such a request returns or records
\* metrics, the call that evaluates raises, and the module-global generator
\* is left in the state it was in (it is neither reseeded nor drawn from).
C12_UnknownServiceRejected ==
    /\ [](~KnownService =>
             /\ pc \in {"start", "search", "raised"}
             /\ pc = "search" => engine = "v1" /\ r = 0
             /\ pc = "raised" <=> error = "ValueError"
             /\ evalLog = <<>>
             /\ best_metrics = NoMetrics)
    /\ [][~KnownService =>
             /\ rng' = rng
             /\ (engine = "v2" \/ pc = "search") => pc' = "raised"]_vars

\* A search for an unknown service level has raised ValueError with the
\* generator still in the state earlier draws left, one draw after the seed.
C12_Witness ==
    /\ service_type = "premium"
    /\ pc = "raised"
    /\ error = "ValueError"
    /\ rng = 1
    /\ n_samples >= 1

\* C13: a trial count of zero or less is rejected as an invalid request
\* (ValueError, the error of an invalid service level): no search of such a
\* request returns metrics, and the exception that ends it is ValueError.
C13_NonPositiveTrialsRejected ==
    n_samples <= 0 =>
        /\ pc # "done"
        /\ pc = "raised" => error = "ValueError"

CandidateIds(eng) ==
    IF eng = "v1" THEN SeqToSet(EXPRESS_CANDIDATES)
                  ELSE SeqToSet(get_all_express_candidates)

\* C14: an express set with an id that is no candidate of the catalog is
\* rejected as an invalid request (ValueError) by the evaluation and by the
\* schedule builder: a call with such a set returns neither metrics nor a
\* schedule, and the exception that ends it is ValueError.
C14_UnknownIdRejected ==
    ~(ExprIds(engine, arg_express) \subseteq CandidateIds(engine)) =>
        /\ pc # "done"
        /\ schedule = <<>>
        /\ pc = "raised" => error = "ValueError"

\* ------------------------------------------------------- stage catalog

StageIds(eng) == {ACTIVITIES(eng)[i].id : i \in 1..Len(ACTIVITIES(eng))}

Predecessors(eng, id) == SeqToSet(ActivityById(eng, id).predecessors)

\* The stages from which a stage of S can be reached, S included.
RECURSIVE UpstreamClosure(_, _)
UpstreamClosure(eng, S) ==
    LET T == S \cup UNION {Predecessors(eng, id) : id \in S}
    IN  IF T = S THEN S ELSE UpstreamClosure(eng, T)

\* The stages with a path to id, id excluded unless it lies on a cycle.
Upstream(eng, id) == UpstreamClosure(eng, Predecessors(eng, id))

Sources(eng) == {id \in StageIds(eng) : Predecessors(eng, id) = {}}

Sinks(eng) ==
    {id \in StageIds(eng) :
        \A other \in StageIds(eng) : id \notin Predecessors(eng, other)}

TopoOrderValid(eng) ==
    /\ Len(TOPO_ORDER) = Cardinality(StageIds(eng))
    /\ SeqToSet(TOPO_ORDER) = StageIds(eng)
    /\ \A i \in 1..Len(TOPO_ORDER) :
           \A p \in Predecessors(eng, TOPO_ORDER[i]) :
               \E j \in 1..(i - 1) : TOPO_ORDER[j] = p

DagInvariant(eng) ==
    /\ Len(ACTIVITIES(eng)) = Cardinality(StageIds(eng))
    /\ \A id \in StageIds(eng) : Predecessors(eng, id) \subseteq StageIds(eng)
    /\ \A id \in StageIds(eng) : id \notin Upstream(eng, id)
    /\ Sources(eng) = {"a"}
    /\ Sinks(eng) = {"n"}
    /\ Upstream(eng, "n") = StageIds(eng) \ {"n"}
    /\ TopoOrderValid(eng)

\* The stages with a path to a stage of S in catalog cat, S included; only
\* known stages are followed.
RECURSIVE CatalogUpstream(_, _)
CatalogUpstream(cat, S) ==
    LET T == S \cup UNION {SeqToSet(cat[id]) \cap DOMAIN cat : id \in S}
    IN  IF T = S THEN S ELSE CatalogUpstream(cat, T)

\* The DAG invariant of a catalog: every predecessor is a stage, no stage is
\* upstream of itself, one stage has no predecessors, one stage is nobody's
\* predecessor and every other stage is upstream of it.
CatalogValid(cat) ==
    /\ \A id \in DOMAIN cat : SeqToSet(cat[id]) \subseteq DOMAIN cat
    /\ \A id \in DOMAIN cat :
           id \notin CatalogUpstream(cat, SeqToSet(cat[id]))
    /\ Cardinality({id \in DOMAIN cat : cat[id] = <<>>}) = 1
    /\ \E sink \in DOMAIN cat :
           /\ {id \in DOMAIN cat :
                  \A other \in DOMAIN cat : id \notin SeqToSet(cat[other])}
                  = {sink}
           /\ CatalogUpstream(cat, {sink}) = DOMAIN cat

\* C15: a catalog that violates the DAG invariant is rejected when it is
\* loaded: it is never in use, no trial runs on it, and so no violation
\* shows first in compute_makespan.
C15_CatalogValidatedAtLoad ==
    ~CatalogValid(catalog) => load # "loaded" /\ makespan.status = "none"

\* C16: the stage catalog of the engine in use, either one, is acyclic, "a"
\* is its only stage without predecessors, "n" is the only stage that is
\* nobody's predecessor and is reachable from every other stage, and
\* TOPO_ORDER lists every stage exactly once, each after all of its
\* predecessors.
C16_ShippedCatalogIsDag == DagInvariant(engine)

\* A search of engine_v2.py has walked the catalog in TOPO_ORDER and returned,
\* with a stage that has several predecessors ("h") among the stages.
C16_Witness ==
    /\ pc = "done"
    /\ engine = "v2"
    /\ best_metrics # NoMetrics
    /\ Cardinality(Predecessors(engine, "h")) = 3

\* ------------------------------------------------ greedy search: toggles

\* C20 as stated: a round of the greedy search evaluates toggles of
\* candidates outside the express set only, so that every set it evaluates
\* contains the express set, and the express set only grows.
C20_OnlyUncommittedToggled ==
    [][(engine = "v2" /\ pc = "search") =>
          /\ \A j \in (Len(evalLog) + 1)..Len(evalLog') :
                 express_set \subseteq evalLog'[j][1]
          /\ express_set \subseteq express_set']_vars

\* The sets a round of the greedy search evaluates, from express set es.
RoundToggles(es) ==
    [k \in 1..Len(Candidates) |->
        IF Candidates[k] \in es THEN es \ {Candidates[k]}
                                ELSE es \cup {Candidates[k]}]

\* C20, amended: every round of the greedy search evaluates one toggle for
\* every candidate, committed or not (for a committed candidate the toggle
\* removes it), in the order of the candidate list; a round that commits
\* changes the express set by exactly one candidate, which may be the removal
\* of a candidate committed earlier, and a round that does not commit leaves
\* the express set as it is.
C20_EveryCandidateToggled ==
    [][(pc = "search" /\ engine = "v2" /\ improved /\ pc' = "search") =>
          /\ Len(evalLog') = Len(evalLog) + Len(Candidates)
          /\ \A k \in 1..Len(Candidates) :
                 evalLog'[Len(evalLog) + k][1] = RoundToggles(express_set)[k]
          /\ commits' = commits + 1 =>
                 \E k \in 1..Len(Candidates) :
                     express_set' = RoundToggles(express_set)[k]
          /\ commits' = commits => express_set' = express_set
          /\ commits' \in {commits, commits + 1}]_vars

\* A search has returned a non-empty set, and its last round evaluated the
\* removal of a committed candidate.
C20_Witness ==
    /\ pc = "done"
    /\ engine = "v2"
    /\ commits >= 1
    /\ Len(evalLog) > Len(Candidates)
    /\ \E j \in (Len(evalLog) - Len(Candidates) + 1)..Len(evalLog) :
           /\ evalLog[j][1] \subseteq express_set
           /\ evalLog[j][1] # express_set

\* ---------------------------------------------------- expected schedule

Rows == schedule.schedule

RowOf(act_id) ==
    Rows[CHOOSE i \in 1..Len(Rows) : Rows[i].ActivityId = act_id]

\* The largest Finish among the rows of the stages in S, 0 for none.
LatestFinish(S) ==
    IF S = {} THEN 0
    ELSE CHOOSE t \in {RowOf(id).Finish : id \in S} :
             \A id \in S : RowOf(id).Finish <= t

\* C17: build_expected_schedule draws nothing from the generator and returns
\* the same schedule when it is called again with the same inputs; its rows
\* are the stages other than "n", each once, in non-decreasing order of Start,
\* every row has Finish = Start + Duration and starts when the last of its
\* predecessors finishes, and the total duration is the earliest finish of
\* the sink "n": the latest Finish of its predecessors, which no row exceeds.
C17_ExpectedSchedule ==
    /\ [](schedule # <<>> =>
             /\ Len(Rows) = Cardinality(StageIds(engine)) - 1
             /\ {Rows[i].ActivityId : i \in 1..Len(Rows)}
                    = StageIds(engine) \ {"n"}
             /\ \A i \in 1..(Len(Rows) - 1) : Rows[i].Start <= Rows[i + 1].Start
             /\ \A i \in 1..Len(Rows) :
                    /\ Rows[i].Finish = Rows[i].Start + Rows[i].Duration
                    /\ Rows[i].Start
                           = LatestFinish(Predecessors(engine, Rows[i].ActivityId))
                    /\ Rows[i].Activity = ActivityName(engine, Rows[i].ActivityId)
                    /\ Rows[i].Finish <= schedule.total_duration
             /\ schedule.total_duration
                    = LatestFinish(Predecessors(engine, "n")))
    /\ [][schedule_calls' # schedule_calls =>
             /\ rng' = rng
             /\ schedule # <<>> => schedule' = schedule]_vars

\* The schedule of a non-empty returned express set has been built twice, and
\* sorting moved a row: a stage is listed before one that precedes it in
\* TOPO_ORDER.
C17_Witness ==
    /\ schedule_calls = 2
    /\ ReturnedIds # {}
    /\ \E i, j \in 1..Len(Rows) :
           /\ i < j
           /\ \E u, v \in 1..Len(TOPO_ORDER) :
                  /\ u > v
                  /\ TOPO_ORDER[u] = Rows[i].ActivityId
                  /\ TOPO_ORDER[v] = Rows[j].ActivityId

\* ------------------------------------------------------------- frame

\* C19: no step of a search (with the evaluations it makes) and no call of
\* build_expected_schedule changes what the caller passed in: the service
\* level, the site, the missing-parts collection and the trial count stay as
\* requested, and building the schedule leaves the express set it is given,
\* and the metrics returned with it, as the search returned them.  (The
\* catalog, ACTIVITIES, PARTS and the candidate lists, is never assigned to
\* by the source and is constant here.)
C19_InputsUnchanged ==
    [][/\ service_type' = service_type
       /\ site' = site
       /\ missing' = missing
       /\ n_samples' = n_samples
       /\ engine' = engine
       /\ pc = "done" =>
              /\ best_set' = best_set
              /\ express_set' = express_set
              /\ best_metrics' = best_metrics]_vars

\* A search with missing parts has evaluated, returned a non-empty express
\* set, and the schedule of that set has been built.
C19_Witness ==
    /\ pc = "done"
    /\ schedule_calls >= 1
    /\ schedule # <<>>
    /\ ReturnedIds # {}
    /\ Len(evalLog) > 1
    /\ (IF engine = "v1" THEN \E id \in DOMAIN missing : missing[id]
                          ELSE missing # {})

\* ------------------------------------------------ concurrent evaluations

\* C18: of two evaluations running concurrently, with their trials
\* interleaved, each returns exactly the metrics the same evaluation returns
\* when it runs alone.
C18_ConcurrentEvaluationsIndependent ==
    \A t \in DOMAIN threads :
        threads[t].at = "done" =>
            threads[t].metrics
                = evaluate_strategy_for_service(engine, service_type, site,
                      threads[t].express_set, missing, n_samples, 0).metrics

\* ------------------------------------------------- critical-path method

\* max() of a non-empty finite set of numbers.
SetMax(S) == CHOOSE x \in S : \A y \in S : y <= x

\* The paths of the network that end in stage id, each from a stage without
\* predecessors on.
RECURSIVE PathsTo(_, _)
PathsTo(eng, id) ==
    IF Predecessors(eng, id) = {}
    THEN {<<id>>}
    ELSE UNION {{Append(path, id) : path \in PathsTo(eng, p)} :
                p \in Predecessors(eng, id)}

\* The paths that end in the sink "n", for either engine.
PATHS_TO_SINK == [v1 |-> PathsTo("v1", "n"), v2 |-> PathsTo("v2", "n")]

\* The sum of the durations d along a path, from its k-th stage on.
RECURSIVE PathLength(_, _, _)
PathLength(d, path, k) ==
    IF k > Len(path) THEN 0 ELSE d[path[k]] + PathLength(d, path, k + 1)

\* The assignment the last call of compute_makespan was given.
LastDurations == arg_durations[Len(arg_durations)]

\* compute_makespan has been called by itself and has returned.
MakespanReturned == Len(arg_durations) > 0 /\ makespan.status = "ok"

\* C21: when compute_makespan returns, every stage's earliest finish is its
\* own duration on top of 0, for a stage without predecessors, or of the
\* largest earliest finish among its predecessors; the value returned is the
\* earliest finish of "n", and it is the largest sum of durations along a
\* path from "a" to "n".
C21_ForwardPass ==
    MakespanReturned =>
        /\ \A id \in StageIds(engine) :
               earliest_finish[id] =
                   (IF Predecessors(engine, id) = {}
                    THEN 0
                    ELSE SetMax({earliest_finish[p] :
                                    p \in Predecessors(engine, id)}))
                   + LastDurations[id]
        /\ makespan.value = earliest_finish["n"]
        /\ \A path \in PATHS_TO_SINK[engine] : Head(path) = "a"
        /\ makespan.value = SetMax({PathLength(LastDurations, path, 1) :
                                       path \in PATHS_TO_SINK[engine]})

\* compute_makespan has returned for durations under which the longest of
\* the three branches into the quality check "h" is not the first one, and
\* packing "k" outlasts transport scheduling "l".
C21_Witness ==
    /\ MakespanReturned
    /\ LastDurations["b"] + LastDurations["e"]
           < LastDurations["d"] + LastDurations["g"]
    /\ LastDurations["l"] < LastDurations["k"]
    /\ makespan.value > LastDurations["a"] + LastDurations["n"]

\* C22: when compute_makespan is called again with one stage longer and
\* every other duration as before, it returns at least what it returned
\* before.
C22_MakespanMonotone ==
    [][\A s \in StageIds(engine) :
           (/\ Len(arg_durations) = 1
            /\ makespan.status = "ok"
            /\ Len(arg_durations') = 2
            /\ arg_durations'[2] =
                   [arg_durations[1] EXCEPT ![s] = arg_durations'[2][s]]
            /\ arg_durations'[2][s] > arg_durations[1][s])
           => makespan'.value >= makespan.value]_vars

\* compute_makespan has returned for a second assignment, in which final
\* assembly "i" is longer than in the first and every other stage as long.
C22_Witness ==
    /\ Len(arg_durations) = 2
    /\ makespan.status = "ok"
    /\ arg_durations[2]["i"] > arg_durations[1]["i"]
    /\ arg_durations[2] = [arg_durations[1] EXCEPT !["i"] = arg_durations[2]["i"]]

\* ---------------------------------------------------------- PERT samples

\* sample_pert has been called by itself and has returned.
PertReturned == DOMAIN drawn # {}

\* C26: sample_pert called with a = b returns a and leaves the generator as
\* it was; called with a < b and a <= m <= b it returns a value from a to b.
C26_DegenerateAndBounded ==
    PertReturned =>
        /\ pert[1] = pert[3] => drawn.value = pert[1] /\ rng = drawn.at
        /\ (pert[1] < pert[3] /\ pert[1] <= pert[2] /\ pert[2] <= pert[3])
               => pert[1] <= drawn.value /\ drawn.value <= pert[3]

\* sample_pert has returned for a triple with a = b other than 0.
C26_Witness ==
    /\ PertReturned
    /\ pert[1] = pert[3]
    /\ pert[1] > 0

\* ------------------------------------------------------ per-sample cost

\* cost_components has been called by itself and has returned.
CostReturned == DOMAIN components # {}

\* C24: cost_components(T, L) returns the delay max(T - L, 0).  With T <= L
\* all five values are 0.  With T > L the discount cost is DISCOUNT_PER_DAY a
\* day of delay, the churn probability lies between 0 and 1, the churn cost
\* is that probability of CUSTOMER_VALUE, and the total is the discount cost
\* plus the churn cost.
C24_CostComponents ==
    CostReturned =>
        /\ components.delay = Max2(lead[1] - lead[2], 0)
        /\ lead[1] <= lead[2] =>
               /\ components.delay = 0
               /\ components.p_churn = 0
               /\ components.discount_cost = 0
               /\ components.churn_cost = 0
               /\ components.total = 0
        /\ lead[1] > lead[2] =>
               /\ components.discount_cost * TimeScale
                      = DISCOUNT_PER_DAY * components.delay
               /\ components.p_churn >= 0
               /\ components.p_churn <= ProbScale
               /\ components.churn_cost * ProbScale
                      = components.p_churn * CUSTOMER_VALUE
               /\ components.total
                      = components.discount_cost + components.churn_cost

\* cost_components has returned for an order four days late, with a churn
\* probability strictly between 0 and 1.
C24_Witness ==
    /\ CostReturned
    /\ lead[1] - lead[2] = D_MID * TimeScale
    /\ components.p_churn > 0
    /\ components.p_churn < ProbScale
    /\ components.churn_cost > 0

\* --------------------------------------------------------- duration rule

\* The distribution of part pid at the site of the request: the express one
\* if pid is in the express set ids, the normal one otherwise.
PartDistribution(pid, ids) ==
    IF site = "AT"
    THEN IF pid \in ids THEN PartById(pid).AT_express
                        ELSE PartById(pid).AT_normal
    ELSE IF pid \in ids THEN PartById(pid).BE_express
                        ELSE PartById(pid).BE_normal

\* The parts of the list pids that are missing, in the order of the list.
MissingOf(pids) == SelectSeq(pids, LAMBDA pid : pid \in missing)

\* The state of the generator when the i-th of the parts ms is sampled, the
\* first at state pos: every part before it with a < b has drawn once.
DrawState(ms, ids, i, pos) ==
    pos + Cardinality({j \in 1..(i - 1) :
                          PartDistribution(ms[j], ids)[1]
                              # PartDistribution(ms[j], ids)[3]})

\* C23: sample_group_delivery_time samples one time for every missing part of
\* the group and for no other part, each from the part's distribution at the
\* site, the express one if the part is in the express set and the normal
\* one otherwise, and returns the largest of them, 0 if no part of the group
\* is missing.
C23_GroupDuration ==
    (DOMAIN group_call # {} /\ group_call.kind = "sampled") =>
        LET ms == MissingOf(GroupPids(group_call.group))
        IN  /\ Len(group_call.times) = Len(ms)
            /\ \A i \in 1..Len(ms) :
                   group_call.times[i]
                       = SamplePert(PartDistribution(ms[i], arg_express),
                                    DrawState(ms, arg_express, i,
                                              group_call.at))[1]
            /\ rng = DrawState(ms, arg_express, Len(ms) + 1, group_call.at)
            /\ group_call.duration
                   = (IF Len(ms) = 0 THEN 0
                      ELSE SetMax(SeqToSet(group_call.times)))

\* The delivery time of a group has been sampled with both of its parts
\* missing, one of them expedited, and the part sampled second has taken
\* longer.
C23_Witness ==
    /\ DOMAIN group_call # {}
    /\ group_call.kind = "sampled"
    /\ Len(group_call.times) = 2
    /\ group_call.times[1] < group_call.times[2]
    /\ Cardinality(arg_express \cap missing) = 1

\* Six times the PERT mean of triple p: the unit of the expected schedule.
MeanOf(p) == p[1] + 4 * p[2] + p[3]

\* The ids of the express set a caller passed in.
ArgIds == IF engine = "v1" THEN SeqToSet(arg_express) ELSE arg_express

\* The group behind a delivery stage of engine_v2.py.
GroupOfStage == [b |-> "mechanical", c |-> "electrical", d |-> "casting"]

\* The expected duration of the delivery of the parts pids: the largest
\* mean among the missing ones, 0 if none is missing.
ExpectedDelivery(pids) ==
    IF Len(MissingOf(pids)) = 0
    THEN 0
    ELSE SetMax({MeanOf(PartDistribution(pid, ArgIds)) :
                    pid \in SeqToSet(MissingOf(pids))})

\* The mean of the distribution the simulator samples for stage act: the
\* express one if the stage is in the express set, the normal one otherwise.
ExpectedIntrinsic(act) ==
    MeanOf(IF act.id \in ArgIds THEN act.express_pert ELSE act.normal_pert)

\* The duration the rule gives stage id with the mean for the draw.
ExpectedDuration(id) ==
    IF engine = "v1"
    THEN IF id \in {"b", "c", "d"} /\ ~missing[id]
         THEN 0
         ELSE ExpectedIntrinsic(ActivityById("v1", id))
    ELSE IF id \in {"b", "c", "d"}
         THEN ExpectedDelivery(PART_IDS_BY_GROUP[GroupOfStage[id]])
         ELSE ExpectedIntrinsic(ActivityById("v2", id))

\* C25: every row of the expected schedule has as Duration what the duration
\* rule of the simulator gives the stage with the mean of the distribution
\* in place of the draw: the mean of the stage's express or normal
\* distribution, and for a delivery stage of engine_v2.py the largest mean
\* among the missing parts of its group, each expedited or not as in the
\* simulator, 0 if none is missing; group_mean_duration gives the same for
\* any group by itself, and draws nothing.
C25_ScheduleUsesDurationRule ==
    /\ schedule # <<>> =>
           \A i \in 1..Len(Rows) :
               Rows[i].Duration = ExpectedDuration(Rows[i].ActivityId)
    /\ (DOMAIN group_call # {} /\ group_call.kind = "expected") =>
           /\ group_call.duration
                  = ExpectedDelivery(GroupPids(group_call.group))
           /\ Len(group_call.times)
                  = Len(MissingOf(GroupPids(group_call.group)))
           /\ rng = group_call.at

\* The expected delivery time of a group has been taken with both of its
\* parts missing and one of them expedited, and the two means differ.
C25_Witness ==
    /\ DOMAIN group_call # {}
    /\ group_call.kind = "expected"
    /\ Len(group_call.times) = 2
    /\ group_call.times[1] # group_call.times[2]
    /\ Cardinality(arg_express \cap missing) = 1

\* ------------------------------------------------ nothing in stock expedited

\* C27: a search never returns an express set with something in stock in it:
\* the set the greedy search of engine_v2.py returns has no part that is not
\* missing, and the set the exhaustive search of engine.py returns has no
\* delivery stage b, c or d whose part is not missing.
C27_NothingInStockExpedited ==
    (pc = "done" /\ oracle = "sim") =>
        IF engine = "v2"
        THEN express_set \cap PartIds \subseteq missing
        ELSE \A id \in SeqToSet(best_set) \cap {"b", "c", "d"} : missing[id]

\* A greedy search has returned a set with a missing part in it while
\* another part is in stock, and has evaluated the returned set with the
\* part in stock added to it.
C27_Witness ==
    /\ pc = "done"
    /\ engine = "v2"
    /\ oracle = "sim"
    /\ express_set \cap PartIds # {}
    /\ \E pid \in PartIds \ missing :
           \E i \in 1..Len(evalLog) : LogSet(i) = express_set \cup {pid}

\* ------------------------------------------- metrics of the returned set

\* C28: at the start of every iteration of the greedy search's while loop and
\* when the search returns, best_metrics is what
\* evaluate_strategy_for_service returns for the current express_set, and
\* base_profit is the expected_profit of best_metrics.
C28_MetricsOfCurrentSet ==
    (engine = "v2" /\ oracle = "sim" /\ pc \in {"search", "done"}) =>
        /\ Evaluate(express_set, rng).status = "ok"
        /\ best_metrics = Evaluate(express_set, rng).metrics
        /\ base_profit = best_metrics.expected_profit

\* A greedy search has returned after committing two toggles, with metrics
\* that are not those of the empty set it started from.
C28_Witness ==
    /\ engine = "v2"
    /\ oracle = "sim"
    /\ pc = "done"
    /\ commits >= 2
    /\ express_set # {}
    /\ best_metrics # evalLog[1][2]

\* -------------------------------------------------------- site independence

\* The metrics of express set es at site site_ with the parts miss missing,
\* evaluated by itself.
SiteMetrics(site_, miss, es) ==
    evaluate_strategy_for_service("v2", service_type, site_, es, miss,
                                  n_samples, 0).metrics

\* The best improving toggle of es among the candidates from index k on,
\* best = [cid, profit] so far.
RECURSIVE BestToggle(_, _, _, _, _)
BestToggle(site_, miss, es, k, best) ==
    IF k > Len(get_all_express_candidates)
    THEN best
    ELSE BestToggle(site_, miss, es, k + 1,
             IF ExceedsByEps(
                    SiteMetrics(site_, miss,
                        Toggled(es, get_all_express_candidates[k])
                        ).expected_profit,
                    best.profit)
             THEN [cid |-> get_all_express_candidates[k],
                   profit |-> SiteMetrics(site_, miss,
                                  Toggled(es, get_all_express_candidates[k])
                                  ).expected_profit]
             ELSE best)

\* The set a hill climb from es ends in when nothing but site_ and miss is
\* given to it.
RECURSIVE SearchAlone(_, _, _)
SearchAlone(site_, miss, es) ==
    IF BestToggle(site_, miss, es, 1,
           [cid |-> "",
            profit |-> SiteMetrics(site_, miss, es).expected_profit]).cid = ""
    THEN es
    ELSE SearchAlone(site_, miss,
             Toggled(es, BestToggle(site_, miss, es, 1,
                 [cid |-> "",
                  profit |-> SiteMetrics(site_, miss, es).expected_profit]
                 ).cid))

\* C29: in automatic mode the express set and the metrics found for Austria
\* are those of a search given Austria's missing parts alone, and the ones
\* found for Belgium those of a search given Belgium's missing parts alone:
\* neither depends on the other site's missing parts or on the search that ran
\* before it.
C29_SitesIndependent ==
    (site_mode = "auto" /\ app_pc = "shown") =>
        /\ best_set_AT = SearchAlone("AT", missing_AT, {})
        /\ metrics_AT = SiteMetrics("AT", missing_AT, best_set_AT)
        /\ express_set = SearchAlone("BE", missing_BE, {})
        /\ best_metrics = SiteMetrics("BE", missing_BE, express_set)

\* Automatic mode has finished with different parts missing at the two sites
\* and a different, non-empty express set for each.
C29_Witness ==
    /\ site_mode = "auto"
    /\ app_pc = "shown"
    /\ missing_AT # missing_BE
    /\ best_set_AT # {}
    /\ express_set # {}
    /\ best_set_AT # express_set

\* ------------------------------------------------- aggregated metrics

\* The metrics the loop over T_samples by itself has returned.
Aggregated == DOMAIN aggregate # {} /\ aggregate.status = "ok"

\* The probabilities of the returned metrics, as Python compares them:
\* prob_on_time + prob_late == 1 and prob_more_than_5_late <= prob_late.
ProbabilitiesConsistent ==
    /\ FloatAdd(aggregate.metrics.prob_on_time, aggregate.metrics.prob_late)
           = FloatOne
    /\ aggregate.metrics.prob_more_than_5_late <= aggregate.metrics.prob_late

\* Every sample counted as on time has added 0 to every cost sum.
OnTimeCostsNothing ==
    \A i \in 1..Len(aggregate.terms) :
        aggregate.terms[i].on_time =>
            /\ aggregate.terms[i].delay = 0
            /\ aggregate.terms[i].p_churn = 0
            /\ aggregate.terms[i].discount_cost = 0
            /\ aggregate.terms[i].churn_cost = 0
            /\ aggregate.terms[i].total_cost = 0

\* expected_late_cost == expected_discount_cost + expected_churn_cost, as
\* Python compares them.
LateCostIsSumOfParts ==
    aggregate.metrics.expected_late_cost
        = FloatAdd(aggregate.metrics.expected_discount_cost,
                   aggregate.metrics.expected_churn_cost)

\* C30: the metrics of every evaluation with at least one trial are
\* consistent: prob_on_time + prob_late = 1, prob_more_than_5_late is at most
\* prob_late, every sample counted as on time adds 0 to every cost sum, and
\* expected_late_cost = expected_discount_cost + expected_churn_cost.
C30_MetricsConsistent ==
    Aggregated =>
        /\ ProbabilitiesConsistent
        /\ OnTimeCostsNothing
        /\ LateCostIsSumOfParts

\* What does hold of the metrics: the probabilities and the on-time samples
\* are as C30 says.
C30_CountsConsistent ==
    Aggregated => (ProbabilitiesConsistent /\ OnTimeCostsNothing)

====
